---- MODULE Spec2Model ----
(***************************************************************************)
(* Model of the analyze-meal Edge Function (AI-macro-lens).                *)
(*                                                                         *)
(* One request is one run of the serve handler of index.ts.  Every await   *)
(* of the handler is one action; the synchronous code that follows an      *)
(* await up to the next await belongs to the same action.  The ai_usage    *)
(* table is the only state shared between requests.                        *)
(*                                                                         *)
(* Units: money is counted in hundredths of a rupee (0.03 INR = 3),        *)
(* protein/carbs/fat of a normalized estimate in tenths of a gram,         *)
(* calories in whole kcal.  Days are numbered 0, 1, 2, ...; a month is     *)
(* DaysPerMonth consecutive days.                                          *)
(*                                                                         *)
(* An optional value (undefined / null in the source) is a sequence of     *)
(* length 0 or 1.                                                          *)
(***************************************************************************)
EXTENDS Integers, Sequences, FiniteSets, TLC

VARIABLES
    today,        \* the server's calendar day (new Date())
    hasOpenAI,    \* !!Deno.env.get('OPENAI_API_KEY')
    ai_usage,     \* the ai_usage table: a sequence of rows
    started,      \* number of requests received so far
    pc,           \* per request: the await the handler is suspended at
    authHeader,   \* per request: whether the Authorization header is present
    body,         \* per request: the body read by req.json() (option)
    user,         \* per request: the authenticated user (option)
    requestData,  \* per request: validateRequest's result (option)
    macros,       \* per request: the handler's `macros` (option)
    aiModel,      \* per request: the handler's `aiModel`
    usageDay,     \* per request: recordAIUsage's `today`
    existing,     \* per request: recordAIUsage's `existing` (option)
    invoked,      \* per request: the adapter calls made, with their outcomes
    probe,        \* per request: what the HEAD probe of the image came to (option)
    replies,      \* per request: the provider texts the adapters parsed
    recorded,     \* per request: the calls of recordAIUsage, each with its outcome
    response      \* per request: the Response returned (option)

vars == <<today, hasOpenAI, ai_usage, started, pc, authHeader, body, user,
          requestData, macros, aiModel, usageDay, existing, invoked,
          probe, replies, recorded, response>>

locals == <<authHeader, body, user, requestData, macros, aiModel, usageDay,
            existing, invoked, probe, replies, recorded>>

-----------------------------------------------------------------------------
(* Bounds of the model *)

MaxRequests == 2
MaxConcurrentRequests == 3
MaxTicks == 1
DaysPerMonth == 2

(* Configuration: config.ts *)

RATE_LIMIT_DAILY == 7
DocumentedDailyLimit == 5
COST_LIMIT_MONTHLY_INR == 10000
GEMINI_COST_PER_IMAGE_INR == 3
OPENAI_COST_PER_IMAGE_INR == 9
MinDescriptionLength == 10
MinTextAdapterLength == 5

-----------------------------------------------------------------------------
(* Values *)

Procs == {1, 2}
Sequential == {1}

Users == {"u1", "u2"}
None == <<>>
Some(x) == <<x>>
IsSome(o) == Len(o) = 1
Get(o) == o[1]

Confidence == {"low", "medium", "high"}

\* MacroEstimate (types.ts), as the adapters return it after normalization
Macros(c, t, k) ==
    [calories |-> c, protein |-> t[1], carbs |-> t[2], fat |-> t[3], confidence |-> k]

\* the estimates of the model: every combination of zero / non-zero calories
\* with all-zero / all-non-zero macros, and one with a single non-zero macro
Estimates ==
    {Macros(c, t, k) : c \in {0, 250}, t \in {<<0, 0, 0>>, <<125, 300, 90>>},
                       k \in Confidence}
    \cup {Macros(250, <<0, 0, 90>>, k) : k \in Confidence}

\* what an adapter call can throw
AdapterErrors == {"ProviderError", "MalformedResponse", "TimeoutError", "ImageFetchError"}

-----------------------------------------------------------------------------
(* JSON values of the request body.  A string is a sequence of characters;  *)
(* NonString stands for a value of another JSON type (a non-zero number).    *)

Undefined == [type |-> "undefined", str |-> <<>>]
Str(s) == [type |-> "string", str |-> s]
NonString == [type |-> "number", str |-> <<>>]

\* JavaScript truthiness of a body field: undefined and "" are falsy
Truthy(v) == v.type = "number" \/ (v.type = "string" /\ v.str # <<>>)

Rep(c, n) == [i \in 1..n |-> c]

RECURSIVE TrimStart(_)
TrimStart(s) == IF s # <<>> /\ Head(s) = " " THEN TrimStart(Tail(s)) ELSE s

RECURSIVE TrimEnd(_)
TrimEnd(s) ==
    IF s # <<>> /\ s[Len(s)] = " " THEN TrimEnd(SubSeq(s, 1, Len(s) - 1)) ELSE s

\* String.prototype.trim
Trim(s) == TrimEnd(TrimStart(s))

\* the user ids: the strings that match uuidRegex and name a user
UserId(u) == Str(<<u>>)
NotAUuid == Str(<<"not-a-uuid">>)
uuidRegexTest(v) == \E u \in Users : v = UserId(u)

\* URL strings, by what `new URL(url)` makes of them
HttpsUrl == Str(<<"https://cdn/meal.jpg">>)
HttpUrl == Str(<<"http://cdn/meal.jpg">>)
FtpUrl == Str(<<"ftp://cdn/meal.jpg">>)
BadUrl == Str(<<"meal.jpg">>)
UrlProtocol(v) ==
    CASE v = HttpsUrl -> "https:"
      [] v = HttpUrl -> "http:"
      [] v = FtpUrl -> "ftp:"
      [] OTHER -> "TypeError"

isValidUrl(url) == UrlProtocol(url) \in {"http:", "https:"}

\* faulty variant of validateRequest: the description is measured untrimmed
validateRequestUntrimmed(data) ==
    IF data.kind # "object" THEN None
    ELSE IF ~Truthy(data.user_id) \/ data.user_id.type # "string" THEN None
    ELSE IF ~uuidRegexTest(data.user_id) THEN None
    ELSE IF data.image_url.type \notin {"undefined", "string"} THEN None
    ELSE IF Truthy(data.image_url) /\ ~isValidUrl(data.image_url) THEN None
    ELSE IF data.description.type \notin {"undefined", "string"} THEN None
    ELSE IF ~Truthy(data.image_url) /\ ~Truthy(data.description) THEN None
    ELSE IF /\ ~Truthy(data.image_url)
            /\ Truthy(data.description)
            /\ Len(data.description.str) < MinDescriptionLength THEN None
    ELSE Some([user_id |-> data.user_id,
               image_url |-> data.image_url,
               description |-> data.description])

\* faulty variant of validateRequest: a body with neither input is accepted
validateRequestNoInput(data) ==
    IF data.kind # "object" THEN None
    ELSE IF ~Truthy(data.user_id) \/ data.user_id.type # "string" THEN None
    ELSE IF ~uuidRegexTest(data.user_id) THEN None
    ELSE IF data.image_url.type \notin {"undefined", "string"} THEN None
    ELSE IF Truthy(data.image_url) /\ ~isValidUrl(data.image_url) THEN None
    ELSE IF data.description.type \notin {"undefined", "string"} THEN None
    ELSE IF /\ ~Truthy(data.image_url)
            /\ Truthy(data.description)
            /\ Len(Trim(data.description.str)) < MinDescriptionLength THEN None
    ELSE Some([user_id |-> data.user_id,
               image_url |-> data.image_url,
               description |-> data.description])

\* validateRequest: the request data, or None when it throws ValidationError
validateRequest(data) ==
    IF data.kind # "object" THEN None
    ELSE IF ~Truthy(data.user_id) \/ data.user_id.type # "string" THEN None
    ELSE IF ~uuidRegexTest(data.user_id) THEN None
    ELSE IF data.image_url.type \notin {"undefined", "string"} THEN None
    ELSE IF Truthy(data.image_url) /\ ~isValidUrl(data.image_url) THEN None
    ELSE IF data.description.type \notin {"undefined", "string"} THEN None
    ELSE IF ~Truthy(data.image_url) /\ ~Truthy(data.description) THEN None
    ELSE IF /\ ~Truthy(data.image_url)
            /\ Truthy(data.description)
            /\ Len(Trim(data.description.str)) < MinDescriptionLength THEN None
    ELSE Some([user_id |-> data.user_id,
               image_url |-> data.image_url,
               description |-> data.description])

\* the request bodies of the model
Descriptions ==
    {Undefined, Str(<<>>), Str(Rep("a", MinDescriptionLength)),
     Str(Rep("a", MinDescriptionLength - 1)),
     Str(<<" ">> \o Rep("a", MinDescriptionLength - 1)), NonString}

ImageUrls == {Undefined, Str(<<>>), HttpsUrl, FtpUrl, BadUrl, NonString}

UserIds == {Undefined, NotAUuid} \cup {UserId(u) : u \in Users}

Bodies ==
    {b \in [kind : {"object"}, user_id : UserIds, image_url : ImageUrls,
            description : Descriptions] :
        Truthy(b.image_url) =>
            b.description \in {Undefined, Str(Rep("a", MinDescriptionLength - 1)),
                               NonString}}
    \cup {[kind |-> "other", user_id |-> Undefined, image_url |-> Undefined,
           description |-> Undefined]}

\* what req.json() comes to: a body, or None when the body is not JSON
BodiesRead == {None} \cup {Some(d) : d \in Bodies}

\* what auth.getUser(token) comes to: a user, or None
UsersResolved == {None} \cup {Some(UserId(x)) : x \in Users}

-----------------------------------------------------------------------------
(* The text a provider answers with, and the response normalizers of the     *)
(* three adapters.  A text is a sequence of tokens: a code fence, the word   *)
(* json, the letter s, a run of whitespace, a run of prose (no brace, no     *)
(* fence), a brace, a comma, or the members of a JSON object.  A number of   *)
(* the object is counted in hundredths (18.55 = 1855).                       *)

\* JSON values of the provider's object by their typeof (t), number (n) and
\* string (s); Absent is a member that is missing
Num(h) == [n |-> h, s |-> "", t |-> "number"]
JStr(s) == [n |-> 0, s |-> s, t |-> "string"]
Null == [n |-> 0, s |-> "", t |-> "object"]
Absent == [n |-> 0, s |-> "", t |-> "undefined"]

\* the members of the object the prompts ask for
Members(c, p, b, f, k) ==
    [calories |-> c, carbs |-> b, confidence |-> k, fat |-> f, protein |-> p]
NoMembers == Members(Absent, Absent, Absent, Absent, Absent)

Tok(k) == [k |-> k, v |-> NoMembers]
Fence == Tok("fence")
Json == Tok("json")
LetterS == Tok("s")
Ws == Tok(" ")
Prose == Tok("prose")
LBrace == Tok("{")
RBrace == Tok("}")
Comma == Tok(",")
MembersTok(m) == [k |-> "members", v |-> m]

RECURSIVE DropWsStart(_)
DropWsStart(s) == IF s # <<>> /\ Head(s) = Ws THEN DropWsStart(Tail(s)) ELSE s

RECURSIVE DropWsEnd(_)
DropWsEnd(s) ==
    IF s # <<>> /\ s[Len(s)] = Ws THEN DropWsEnd(SubSeq(s, 1, Len(s) - 1)) ELSE s

\* String.prototype.trim on a text
TrimText(s) == DropWsEnd(DropWsStart(s))

StartsWith(s, prefix) ==
    Len(s) >= Len(prefix) /\ SubSeq(s, 1, Len(prefix)) = prefix
EndsWith(s, tok) == s # <<>> /\ s[Len(s)] = tok

\* s.replace(/^prefix\s*/, '')
StripStart(s, prefix) ==
    IF StartsWith(s, prefix)
    THEN DropWsStart(SubSeq(s, Len(prefix) + 1, Len(s)))
    ELSE s

\* s.replace(/\s*```$/, '')
StripEndFence(s) ==
    IF EndsWith(s, Fence) THEN DropWsEnd(SubSeq(s, 1, Len(s) - 1)) ELSE s

\* s.match(/\{[\s\S]*\}/): from the first opening brace to the last closing
\* brace after it (None: no match)
MatchObject(s) ==
    LET opens == {i \in DOMAIN s : s[i] = LBrace}
        closes == {j \in DOMAIN s : s[j] = RBrace}
        first == CHOOSE i \in opens : \A x \in opens : i <= x
        last == CHOOSE j \in closes : \A x \in closes : x <= j
    IN  IF opens # {} /\ closes # {} /\ first < last
        THEN Some(SubSeq(s, first, last))
        ELSE None

\* "Strategy 2" of the Gemini normalizers: a text that does not start with a
\* brace is replaced by the object found in it, if any
ExtractObject(s) ==
    IF StartsWith(s, <<LBrace>>) \/ MatchObject(s) = None THEN s
    ELSE Get(MatchObject(s))

\* JSON.parse of a text: the members of the object it denotes, or None when
\* it throws SyntaxError; whitespace between the tokens is insignificant
JSONParse(s) ==
    LET t == SelectSeq(s, LAMBDA x : x # Ws)
    IN  IF t = <<LBrace, RBrace>> THEN Some(NoMembers)
        ELSE IF Len(t) = 3 /\ t[1] = LBrace /\ t[2].k = "members" /\ t[3] = RBrace
        THEN Some(t[2].v)
        ELSE None

\* Math.round of a number given in hundredths: the nearest integer, a half
\* going up
MathRound(h) == (h + 50) \div 100

\* faulty variant of ValidStructure: && instead of ||, so one member of the
\* right type is enough
ValidStructureAny(m) ==
    \/ m.calories.t = "number"
    \/ m.protein.t = "number"
    \/ m.carbs.t = "number"
    \/ m.fat.t = "number"
    \/ m.confidence \in {JStr(k) : k \in Confidence}

\* the "Validate structure" test of the normalizers
ValidStructure(m) ==
    /\ m.calories.t = "number"
    /\ m.protein.t = "number"
    /\ m.carbs.t = "number"
    /\ m.fat.t = "number"
    /\ m.confidence \in {JStr(k) : k \in Confidence}

\* faulty variant of RoundTenth: Math.floor instead of Math.round
RoundTenthDown(h) == h \div 10

\* faulty variant of RoundTenth: the division by 10 is forgotten
RoundTenthScaled(h) == MathRound(h * 10) * 10

\* Math.round(x * 10) / 10, the result counted in tenths
RoundTenth(h) == MathRound(h * 10)

\* the MacroEstimate the normalizers build from a valid object
Rounded(m) ==
    Macros(MathRound(m.calories.n),
           <<RoundTenth(m.protein.n), RoundTenth(m.carbs.n), RoundTenth(m.fat.n)>>,
           m.confidence.s)

\* what a normalizer comes to: it returns an estimate or throws an error
Returns(m) == [error |-> "", estimate |-> Some(m)]
Throws(e) == [error |-> e, estimate |-> None]

\* the validation and rounding all three normalizers end with
Validated(m) ==
    IF ValidStructure(m) THEN Returns(Rounded(m))
    ELSE Throws("Invalid response structure from AI")

\* gemini-helper.ts: the cleaning of parseAIResponse
CleanedImage(text) ==
    ExtractObject(TrimText(StripEndFence(StripStart(
        StripStart(StripStart(TrimText(text), <<Fence, Json>>),
                   <<Fence, Json, LetterS>>),
        <<Fence>>))))

\* gemini-helper.ts: parseAIResponse
parseAIResponse(text) ==
    IF JSONParse(CleanedImage(text)) = None
    THEN Throws("Failed to parse AI response as JSON")
    ELSE Validated(Get(JSONParse(CleanedImage(text))))

\* gemini-text-helper.ts: the cleaning of parseTextAnalysisResponse
CleanedText(text) ==
    ExtractObject(TrimText(StripEndFence(StripStart(
        StripStart(TrimText(text), <<Fence, Json>>), <<Fence>>))))

\* faulty variant of LooksTruncated: only a trailing comma counts
LooksTruncatedOnlyComma(cleaned) == EndsWith(cleaned, Comma)

\* gemini-text-helper.ts: the test for a truncated answer
LooksTruncated(cleaned) == EndsWith(cleaned, Comma) \/ ~EndsWith(cleaned, RBrace)

\* gemini-text-helper.ts: parseTextAnalysisResponse
parseTextAnalysisResponse(text) ==
    IF JSONParse(CleanedText(text)) = None
    THEN IF LooksTruncated(CleanedText(text))
         THEN Throws("AI response appears truncated")
         ELSE Throws("Failed to parse AI response as JSON")
    ELSE Validated(Get(JSONParse(CleanedText(text))))

\* openai-helper.ts: parseAIResponse, which parses the trimmed text as it is
parseAIResponseOpenAI(text) ==
    IF JSONParse(TrimText(text)) = None
    THEN Throws("SyntaxError")
    ELSE Validated(Get(JSONParse(TrimText(text))))

-----------------------------------------------------------------------------
(* The ai_usage table (database.ts) *)

Row(uid, day, calls, cost) ==
    [user_id |-> uid, usage_date |-> day, calls |-> calls, estimated_cost |-> cost]

\* faulty variant of Matching: the rows of the user, whatever their date
MatchingAnyDay(t, uid, day) == {i \in DOMAIN t : t[i].user_id = uid}

\* rows selected by .eq('user_id', uid).eq('usage_date', day)
Matching(t, uid, day) ==
    {i \in DOMAIN t : t[i].user_id = uid /\ t[i].usage_date = day}

\* .single(): the row when exactly one matches, else error PGRST116 (None)
Single(t, uid, day) ==
    IF Cardinality(Matching(t, uid, day)) = 1
    THEN Some(t[CHOOSE i \in Matching(t, uid, day) : TRUE])
    ELSE None

\* getDailyUsageCount when the query itself does not fail
getDailyUsageCount(t, uid, day) ==
    IF IsSome(Single(t, uid, day)) THEN Get(Single(t, uid, day)).calls ELSE 0

firstDayOfMonth(day) == (day \div DaysPerMonth) * DaysPerMonth

\* the day the model starts on: the last day of a month
FirstDay == DaysPerMonth - 1

RECURSIVE SumCost(_, _)
SumCost(t, from) ==
    IF t = <<>> THEN 0
    ELSE (IF Head(t).usage_date >= from THEN Head(t).estimated_cost ELSE 0)
         + SumCost(Tail(t), from)

\* faulty variant of getMonthlyEstimatedCost: no .gte('usage_date', ...)
getMonthlyEstimatedCostAllTime(t, day) == SumCost(t, 0)

\* getMonthlyEstimatedCost when the query itself does not fail
getMonthlyEstimatedCost(t, day) == SumCost(t, firstDayOfMonth(day))

\* faulty variant of CostOf: one cost for every model
CostOfFlat(model) == GEMINI_COST_PER_IMAGE_INR

\* recordAIUsage: the per-call cost of the model
CostOf(model) ==
    IF model = "gemini" THEN GEMINI_COST_PER_IMAGE_INR ELSE OPENAI_COST_PER_IMAGE_INR

\* faulty variant of UpdateRows: the cost is stored, not added
UpdateRowsOverwrite(t, uid, day, old, cost) ==
    [i \in DOMAIN t |->
        IF i \in Matching(t, uid, day)
        THEN [t[i] EXCEPT !.calls = old.calls + 1, !.estimated_cost = cost]
        ELSE t[i]]

\* recordAIUsage: the update of the rows of (uid, day) from the row read before
UpdateRows(t, uid, day, old, cost) ==
    [i \in DOMAIN t |->
        IF i \in Matching(t, uid, day)
        THEN [t[i] EXCEPT !.calls = old.calls + 1,
                          !.estimated_cost = old.estimated_cost + cost]
        ELSE t[i]]

\* recordAIUsage: the insert of a new row
InsertRow(t, uid, day, cost) == Append(t, Row(uid, day, 1, cost))

\* The tables a request can find.  The row of Others stands for the rows of
\* all the users that are not modelled one by one: only its estimated_cost
\* is read (by getMonthlyEstimatedCost), never its calls.
Others == Str(<<"others">>)
OthersRow(cost) == Row(Others, FirstDay, cost \div GEMINI_COST_PER_IMAGE_INR, cost)
UsedRow(u, n) == Row(UserId(u), FirstDay, n, n * GEMINI_COST_PER_IMAGE_INR)

InitialTables ==
    {<<>>,
     <<UsedRow("u1", RATE_LIMIT_DAILY - 1)>>,
     <<OthersRow(COST_LIMIT_MONTHLY_INR - 4)>>}

-----------------------------------------------------------------------------
(* Responses (index.ts: jsonResponse, jsonError) *)

jsonError(error, status) ==
    Some([status |-> status, error |-> error, macros |-> None, ai_model_used |-> ""])

jsonResponse(m, model) ==
    Some([status |-> 200, error |-> "", macros |-> Some(m), ai_model_used |-> model])

\* faulty variant of OuterCatch: only validation errors are answered, every
\* other exception leaves the handler without a response
OuterCatchRethrow(name) ==
    IF name = "ValidationError" THEN jsonError("validation_error", 400)
    ELSE None

\* the handler's outer catch
OuterCatch(name) ==
    IF name = "ValidationError" THEN jsonError("validation_error", 400)
    ELSE IF name = "TimeoutError" THEN jsonError("Request timeout", 504)
    ELSE jsonError("Internal server error", 500)

\* faulty variant of NotFood: tests < 0 instead of = 0
NotFoodNegative(m) == m.calories < 0 \/ (m.protein < 0 /\ m.carbs < 0 /\ m.fat < 0)

\* faulty variant of NotFood: && instead of ||
NotFoodBoth(m) == m.calories = 0 /\ (m.protein = 0 /\ m.carbs = 0 /\ m.fat = 0)

\* the handler's "does not look like food" test
NotFood(m) == m.calories = 0 \/ (m.protein = 0 /\ m.carbs = 0 /\ m.fat = 0)

\* faulty variant of NeedsFallback: falls back whatever the confidence
NeedsFallbackAlways(m, openAI) == openAI

\* the handler's test for calling OpenAI after a Gemini estimate
NeedsFallback(m, openAI) == m.confidence = "low" /\ openAI

\* faulty variant of UseOpenAI: takes every OpenAI estimate
UseOpenAIAlways(o) == TRUE

\* the handler's test for taking the OpenAI estimate instead of Gemini's
UseOpenAI(o) == o.confidence # "low"

\* one adapter call and its outcome, as kept in `invoked`
Call(adapter, estimate) == [adapter |-> adapter, estimate |-> estimate]

\* what an adapter returns (an estimate) or throws (None and the error's name),
\* the text of the provider's answer being left out
AdapterOutcomes ==
    {[estimate |-> Some(m), error |-> "", reply |-> <<>>] : m \in Estimates}
    \cup {[estimate |-> None, error |-> e, reply |-> <<>>] : e \in AdapterErrors}

-----------------------------------------------------------------------------
(* The state after deployment *)

\* the state after deployment, the table being one of tables
InitWith(tables) ==
    /\ today = FirstDay
    /\ hasOpenAI \in BOOLEAN
    /\ ai_usage \in tables
    /\ started = 0
    /\ pc = [p \in Procs |-> "idle"]
    /\ authHeader = [p \in Procs |-> FALSE]
    /\ body = [p \in Procs |-> None]
    /\ user = [p \in Procs |-> None]
    /\ requestData = [p \in Procs |-> None]
    /\ macros = [p \in Procs |-> None]
    /\ aiModel = [p \in Procs |-> ""]
    /\ usageDay = [p \in Procs |-> 0]
    /\ existing = [p \in Procs |-> None]
    /\ invoked = [p \in Procs |-> <<>>]
    /\ probe = [p \in Procs |-> None]
    /\ replies = [p \in Procs |-> <<>>]
    /\ recorded = [p \in Procs |-> <<>>]
    /\ response = [p \in Procs |-> None]

Init == InitWith(InitialTables)

\* the handler of p has returned; the status of its response
Ended(p) == pc[p] = "done"
Status(p) == Get(response[p]).status

\* the handler returns r
Return(p, r) ==
    /\ response' = [response EXCEPT ![p] = r]
    /\ pc' = [pc EXCEPT ![p] = "done"]

\* the handler goes on to its next await
Goto(p, label) ==
    /\ pc' = [pc EXCEPT ![p] = label]
    /\ UNCHANGED response

\* faulty variant of ReceiveWithin: the body is read and validated before the
\* header is looked at
ReceiveWithinBodyFirst(p, n) ==
    /\ pc[p] = "idle"
    /\ started < n
    /\ started' = started + 1
    /\ \E h \in BOOLEAN, b \in BodiesRead :
        /\ authHeader' = [authHeader EXCEPT ![p] = h]
        /\ body' = [body EXCEPT ![p] = IF h THEN None ELSE b]
        /\ IF h
           THEN Goto(p, "auth")
           ELSE IF b = None \/ validateRequest(Get(b)) = None
           THEN Return(p, OuterCatch("ValidationError"))
           ELSE Return(p, jsonError("Missing authorization header", 401))
    /\ UNCHANGED <<today, hasOpenAI, ai_usage, user, requestData, macros,
                   aiModel, usageDay, existing, invoked, recorded,
                   probe, replies>>

\* A POST request arrives, one of at most n: the header check, then await
\* auth.getUser(token)
ReceiveWithin(p, n) ==
    /\ pc[p] = "idle"
    /\ started < n
    /\ started' = started + 1
    /\ \E h \in BOOLEAN :
        /\ authHeader' = [authHeader EXCEPT ![p] = h]
        /\ IF h
           THEN Goto(p, "auth")
           ELSE Return(p, jsonError("Missing authorization header", 401))
    /\ UNCHANGED <<today, hasOpenAI, ai_usage, body, user, requestData, macros,
                   aiModel, usageDay, existing, invoked, recorded,
                   probe, replies>>

Receive(p) == ReceiveWithin(p, MaxRequests)

\* auth.getUser(token) answers
Authenticate(p) ==
    /\ pc[p] = "auth"
    /\ \E u \in UsersResolved, authError \in BOOLEAN :
        /\ authError => u = None
        /\ IF authError \/ u = None
           THEN Return(p, jsonError("Unauthorized", 401)) /\ UNCHANGED user
           ELSE Goto(p, "validate") /\ user' = [user EXCEPT ![p] = u]
    /\ UNCHANGED <<today, hasOpenAI, ai_usage, started, authHeader, body,
                   requestData, macros, aiModel, usageDay, existing, invoked,
                   recorded, probe, replies>>

\* faulty variant of ParseAndValidate: a foreign user_id is replaced by the
\* authenticated one
ParseAndValidateSubstitute(p) ==
    /\ pc[p] = "validate"
    /\ \E b \in BodiesRead :
        /\ body' = [body EXCEPT ![p] = b]
        /\ IF b = None
           THEN Return(p, OuterCatch("SyntaxError")) /\ UNCHANGED requestData
           ELSE IF validateRequest(Get(b)) = None
           THEN Return(p, OuterCatch("ValidationError")) /\ UNCHANGED requestData
           ELSE /\ requestData' = [requestData EXCEPT ![p] =
                      Some([Get(validateRequest(Get(b))) EXCEPT !.user_id = Get(user[p])])]
                /\ Goto(p, "rate_limit")
    /\ UNCHANGED <<today, hasOpenAI, ai_usage, started, authHeader, user,
                   macros, aiModel, usageDay, existing, invoked, recorded,
                   probe, replies>>

\* req.json() answers with the body b of the request (None: the body is not
\* JSON); validateRequest and the identity check follow
ParseAndValidate(p) ==
    /\ pc[p] = "validate"
    /\ \E b \in BodiesRead :
        /\ body' = [body EXCEPT ![p] = b]
        /\ IF b = None
           THEN Return(p, OuterCatch("SyntaxError")) /\ UNCHANGED requestData
           ELSE IF validateRequest(Get(b)) = None
           THEN Return(p, OuterCatch("ValidationError")) /\ UNCHANGED requestData
           ELSE /\ requestData' = [requestData EXCEPT ![p] = validateRequest(Get(b))]
                /\ IF Get(validateRequest(Get(b))).user_id # Get(user[p])
                   THEN Return(p, jsonError("user_id does not match authenticated user", 403))
                   ELSE Goto(p, "rate_limit")
    /\ UNCHANGED <<today, hasOpenAI, ai_usage, started, authHeader, user,
                   macros, aiModel, usageDay, existing, invoked, recorded,
                   probe, replies>>

\* faulty variant of CheckRateLimit: counts the call at admission
CheckRateLimitCounting(p) ==
    /\ pc[p] = "rate_limit"
    /\ \E dbError \in BOOLEAN :
        IF dbError
        THEN Return(p, OuterCatch("PostgrestError")) /\ UNCHANGED ai_usage
        ELSE IF getDailyUsageCount(ai_usage, Get(user[p]), today) >= RATE_LIMIT_DAILY
        THEN Return(p, jsonError("Daily rate limit exceeded", 429)) /\ UNCHANGED ai_usage
        ELSE /\ Goto(p, "cost_guard")
             /\ ai_usage' = InsertRow(ai_usage, Get(user[p]), today, 0)
    /\ UNCHANGED <<today, hasOpenAI, started, locals>>

\* faulty variant of CheckRateLimit: > instead of >=
CheckRateLimitOffByOne(p) ==
    /\ pc[p] = "rate_limit"
    /\ \E dbError \in BOOLEAN :
        IF dbError
        THEN Return(p, OuterCatch("PostgrestError"))
        ELSE IF getDailyUsageCount(ai_usage, Get(user[p]), today) > RATE_LIMIT_DAILY
        THEN Return(p, jsonError("Daily rate limit exceeded", 429))
        ELSE Goto(p, "cost_guard")
    /\ UNCHANGED <<today, hasOpenAI, ai_usage, started, locals>>

\* getDailyUsageCount(user.id) answers; the rate limit check follows
CheckRateLimit(p) ==
    /\ pc[p] = "rate_limit"
    /\ \E dbError \in BOOLEAN :
        IF dbError
        THEN Return(p, OuterCatch("PostgrestError"))
        ELSE IF getDailyUsageCount(ai_usage, Get(user[p]), today) >= RATE_LIMIT_DAILY
        THEN Return(p, jsonError("Daily rate limit exceeded", 429))
        ELSE Goto(p, "cost_guard")
    /\ UNCHANGED <<today, hasOpenAI, ai_usage, started, locals>>

\* faulty variant of ModeOf: IMAGE mode whenever any input is present
ModeOfAnyInput(data) ==
    IF Truthy(data.image_url) \/ Truthy(data.description) THEN "gemini"
    ELSE "invalid_request"

\* faulty variant of ModeOf: the description is looked at first
ModeOfDescriptionFirst(data) ==
    IF Truthy(data.description) THEN "text"
    ELSE IF Truthy(data.image_url) THEN "gemini"
    ELSE "invalid_request"

\* the branch of the handler that follows the admission checks
ModeOf(data) ==
    IF Truthy(data.image_url) THEN "gemini"
    ELSE IF Truthy(data.description) THEN "text"
    ELSE "invalid_request"

\* faulty variant of CheckCostGuard: refuses a request whose own cost could
\* reach the limit
CheckCostGuardPredictive(p) ==
    /\ pc[p] = "cost_guard"
    /\ \E dbError \in BOOLEAN :
        IF dbError
        THEN Return(p, OuterCatch("PostgrestError"))
        ELSE IF getMonthlyEstimatedCost(ai_usage, today) + OPENAI_COST_PER_IMAGE_INR
                    >= COST_LIMIT_MONTHLY_INR
        THEN Return(p, jsonError("Monthly cost limit reached", 429))
        ELSE IF Truthy(Get(requestData[p]).image_url)
        THEN Goto(p, "probe")
        ELSE IF ModeOf(Get(requestData[p])) = "invalid_request"
        THEN Return(p, jsonError("invalid_request", 400))
        ELSE Goto(p, ModeOf(Get(requestData[p])))
    /\ UNCHANGED <<today, hasOpenAI, ai_usage, started, locals>>

\* getMonthlyEstimatedCost() answers; the cost guard follows, then the
\* handler awaits the image probe (image_url given) or the text adapter
CheckCostGuard(p) ==
    /\ pc[p] = "cost_guard"
    /\ \E dbError \in BOOLEAN :
        IF dbError
        THEN Return(p, OuterCatch("PostgrestError"))
        ELSE IF getMonthlyEstimatedCost(ai_usage, today) >= COST_LIMIT_MONTHLY_INR
        THEN Return(p, jsonError("Monthly cost limit reached", 429))
        ELSE IF Truthy(Get(requestData[p]).image_url)
        THEN Goto(p, "probe")
        ELSE IF ModeOf(Get(requestData[p])) = "invalid_request"
        THEN Return(p, jsonError("invalid_request", 400))
        ELSE Goto(p, ModeOf(Get(requestData[p])))
    /\ UNCHANGED <<today, hasOpenAI, ai_usage, started, locals>>

\* what the HEAD request of validateImageUrl can come to: a 2xx answer whose
\* content-type is absent or starts with image/ ("ok"), another status, another
\* content-type, a failed fetch, the 5 s timeout
ProbeOutcomes == {"ok", "bad_status", "not_image", "fetch_failed", "timeout"}

\* faulty variant of ProbeRejects: only the status of the answer is tested
ProbeRejectsStatusOnly(o) == o = "bad_status"

\* validateImageUrl throws ValidationError on every outcome but "ok"
ProbeRejects(o) == o # "ok"

\* validateImageUrl: the HEAD probe answers
ValidateImage(p) ==
    /\ pc[p] = "probe"
    /\ \E o \in ProbeOutcomes :
        /\ probe' = [probe EXCEPT ![p] = Some(o)]
        /\ IF ProbeRejects(o)
           THEN Return(p, OuterCatch("ValidationError"))
           ELSE IF ModeOf(Get(requestData[p])) = "invalid_request"
           THEN Return(p, jsonError("invalid_request", 400))
           ELSE Goto(p, ModeOf(Get(requestData[p])))
    /\ UNCHANGED <<today, hasOpenAI, ai_usage, started, authHeader, body, user,
                   requestData, macros, aiModel, usageDay, existing, invoked,
                   replies, recorded>>

\* the frame of an adapter call
AdapterFrame ==
    UNCHANGED <<today, hasOpenAI, ai_usage, started, authHeader, body, user,
                requestData, existing, probe>>

\* FINALIZE with the accepted estimate m of provider model: the not-food
\* test, then recordAIUsage(user.id, aiModel) starts and computes its `today`
Finalize(p, m, model) ==
    /\ macros' = [macros EXCEPT ![p] = Some(m)]
    /\ aiModel' = [aiModel EXCEPT ![p] = model]
    /\ IF NotFood(m)
       THEN /\ Return(p, jsonError("unable_to_estimate", 400))
            /\ UNCHANGED <<usageDay, recorded>>
       ELSE /\ Goto(p, "record_select")
            /\ usageDay' = [usageDay EXCEPT ![p] = today]
            /\ recorded' = [recorded EXCEPT ![p] = Append(@, "pending")]

\* faulty variant of InnerCatch: a timeout is not caught
InnerCatchNoTimeout(error) == error # "TimeoutError"

\* the catch blocks around the adapter calls: `catch (e)` catches every error
InnerCatch(error) == TRUE

\* an error the inner catch does not catch reaches the outer catch
Escapes(p, error) ==
    /\ Return(p, OuterCatch(error))
    /\ UNCHANGED <<macros, aiModel, usageDay, recorded>>

\* the handler returns unable_to_estimate from a catch block
Unable(p) ==
    /\ Return(p, jsonError("unable_to_estimate", 500))
    /\ UNCHANGED <<macros, aiModel, usageDay, recorded>>

\* analyzeWithGemini answers with one of outcomes (IMAGE mode, first call)
AnalyzeGeminiOn(p, outcomes) ==
    /\ pc[p] = "gemini"
    /\ \E c \in outcomes :
        /\ replies' = [replies EXCEPT ![p] = @ \o c.reply]
        /\ invoked' = [invoked EXCEPT ![p] = Append(@, Call("gemini", c.estimate))]
        /\ IF IsSome(c.estimate)
           THEN IF NeedsFallback(Get(c.estimate), hasOpenAI)
                THEN /\ macros' = [macros EXCEPT ![p] = c.estimate]
                     /\ aiModel' = [aiModel EXCEPT ![p] = "gemini"]
                     /\ Goto(p, "openai_low")
                     /\ UNCHANGED <<usageDay, recorded>>
                ELSE Finalize(p, Get(c.estimate), "gemini")
           ELSE IF ~InnerCatch(c.error)
                THEN Escapes(p, c.error)
                ELSE IF hasOpenAI
                THEN /\ Goto(p, "openai_fail")
                     /\ UNCHANGED <<macros, aiModel, usageDay, recorded>>
                ELSE Unable(p)
    /\ AdapterFrame

AnalyzeGemini(p) == AnalyzeGeminiOn(p, AdapterOutcomes)

\* analyzeWithOpenAI answers with one of outcomes after a low-confidence
\* Gemini estimate
FallbackLowConfidenceOn(p, outcomes) ==
    /\ pc[p] = "openai_low"
    /\ \E c \in outcomes :
        /\ replies' = [replies EXCEPT ![p] = @ \o c.reply]
        /\ invoked' = [invoked EXCEPT ![p] = Append(@, Call("openai", c.estimate))]
        /\ IF IsSome(c.estimate) /\ UseOpenAI(Get(c.estimate))
           THEN Finalize(p, Get(c.estimate), "openai")
           ELSE IF IsSome(c.estimate) \/ InnerCatch(c.error)
           THEN Finalize(p, Get(macros[p]), aiModel[p])
           ELSE Escapes(p, c.error)
    /\ AdapterFrame

FallbackLowConfidence(p) == FallbackLowConfidenceOn(p, AdapterOutcomes)

\* faulty variant of FallbackAfterFailureOn: a failed OpenAI call is tried again
FallbackAfterFailureRetryOn(p, outcomes) ==
    /\ pc[p] = "openai_fail"
    /\ \E c \in outcomes :
        /\ replies' = [replies EXCEPT ![p] = @ \o c.reply]
        /\ invoked' = [invoked EXCEPT ![p] = Append(@, Call("openai", c.estimate))]
        /\ IF IsSome(c.estimate)
           THEN Finalize(p, Get(c.estimate), "openai")
           ELSE IF Len(invoked[p]) < 2
           THEN /\ Goto(p, "openai_fail")
                /\ UNCHANGED <<macros, aiModel, usageDay, recorded>>
           ELSE Unable(p)
    /\ AdapterFrame

\* analyzeWithOpenAI answers with one of outcomes after a failure of Gemini
FallbackAfterFailureOn(p, outcomes) ==
    /\ pc[p] = "openai_fail"
    /\ \E c \in outcomes :
        /\ replies' = [replies EXCEPT ![p] = @ \o c.reply]
        /\ invoked' = [invoked EXCEPT ![p] = Append(@, Call("openai", c.estimate))]
        /\ IF IsSome(c.estimate)
           THEN Finalize(p, Get(c.estimate), "openai")
           ELSE IF InnerCatch(c.error)
           THEN Unable(p)
           ELSE Escapes(p, c.error)
    /\ AdapterFrame

FallbackAfterFailure(p) == FallbackAfterFailureOn(p, AdapterOutcomes)

\* analyzeTextWithGemini answers with one of outcomes (TEXT mode); it throws before any call when
\* the trimmed description is shorter than MinTextAdapterLength
AnalyzeTextOn(p, outcomes) ==
    /\ pc[p] = "text"
    /\ \E c \in outcomes :
        /\ replies' = [replies EXCEPT ![p] = @ \o c.reply]
        /\ Len(Trim(Get(requestData[p]).description.str)) < MinTextAdapterLength
              => c.estimate = None
        /\ invoked' = [invoked EXCEPT ![p] = Append(@, Call("gemini-text", c.estimate))]
        /\ IF IsSome(c.estimate)
           THEN Finalize(p, Get(c.estimate), "gemini")
           ELSE IF InnerCatch(c.error)
           THEN Unable(p)
           ELSE Escapes(p, c.error)
    /\ AdapterFrame

AnalyzeText(p) == AnalyzeTextOn(p, AdapterOutcomes)

\* recordAIUsage: the select of today's row answers (its error is ignored)
RecordSelect(p) ==
    /\ pc[p] = "record_select"
    /\ \E dbError \in BOOLEAN :
        existing' = [existing EXCEPT ![p] =
            IF dbError THEN None ELSE Single(ai_usage, Get(user[p]), usageDay[p])]
    /\ Goto(p, "record_write")
    /\ UNCHANGED <<today, hasOpenAI, ai_usage, started, authHeader, body, user,
                   requestData, macros, aiModel, usageDay, invoked, recorded,
                   probe, replies>>

\* faulty variant of RecordWrite: the error of the write is ignored
RecordWriteSwallow(p) ==
    /\ pc[p] = "record_write"
    /\ \E dbError \in BOOLEAN :
        /\ ai_usage' =
             IF dbError THEN ai_usage
             ELSE IF IsSome(existing[p])
             THEN UpdateRows(ai_usage, Get(user[p]), usageDay[p],
                             Get(existing[p]), CostOf(aiModel[p]))
             ELSE InsertRow(ai_usage, Get(user[p]), usageDay[p], CostOf(aiModel[p]))
        /\ recorded' = [recorded EXCEPT ![p] =
                            [@ EXCEPT ![Len(@)] = IF dbError THEN "failed" ELSE "completed"]]
        /\ Return(p, jsonResponse(Get(macros[p]), aiModel[p]))
    /\ UNCHANGED <<today, hasOpenAI, started, authHeader, body, user,
                   requestData, macros, aiModel, usageDay, existing, invoked,
                   probe, replies>>

\* recordAIUsage: the update or the insert answers; on success the handler
\* returns the success response
RecordWrite(p) ==
    /\ pc[p] = "record_write"
    /\ \E dbError \in BOOLEAN :
        IF dbError
        THEN /\ Return(p, OuterCatch("PostgrestError"))
             /\ recorded' = [recorded EXCEPT ![p] = [@ EXCEPT ![Len(@)] = "failed"]]
             /\ UNCHANGED ai_usage
        ELSE /\ ai_usage' =
                  IF IsSome(existing[p])
                  THEN UpdateRows(ai_usage, Get(user[p]), usageDay[p],
                                  Get(existing[p]), CostOf(aiModel[p]))
                  ELSE InsertRow(ai_usage, Get(user[p]), usageDay[p],
                                 CostOf(aiModel[p]))
             /\ recorded' = [recorded EXCEPT ![p] = [@ EXCEPT ![Len(@)] = "completed"]]
             /\ Return(p, jsonResponse(Get(macros[p]), aiModel[p]))
    /\ UNCHANGED <<today, hasOpenAI, started, authHeader, body, user,
                   requestData, macros, aiModel, usageDay, existing, invoked,
                   probe, replies>>

\* the response has been sent: the handler's locals are gone
Close(p) ==
    /\ pc[p] = "done"
    /\ pc' = [pc EXCEPT ![p] = "idle"]
    /\ authHeader' = [authHeader EXCEPT ![p] = FALSE]
    /\ body' = [body EXCEPT ![p] = None]
    /\ user' = [user EXCEPT ![p] = None]
    /\ requestData' = [requestData EXCEPT ![p] = None]
    /\ macros' = [macros EXCEPT ![p] = None]
    /\ aiModel' = [aiModel EXCEPT ![p] = ""]
    /\ usageDay' = [usageDay EXCEPT ![p] = 0]
    /\ existing' = [existing EXCEPT ![p] = None]
    /\ invoked' = [invoked EXCEPT ![p] = <<>>]
    /\ probe' = [probe EXCEPT ![p] = None]
    /\ replies' = [replies EXCEPT ![p] = <<>>]
    /\ recorded' = [recorded EXCEPT ![p] = <<>>]
    /\ response' = [response EXCEPT ![p] = None]
    /\ UNCHANGED <<today, hasOpenAI, ai_usage, started>>

\* midnight passes
Tick ==
    /\ today < FirstDay + MaxTicks
    /\ today' = today + 1
    /\ UNCHANGED <<hasOpenAI, ai_usage, started, pc, response, locals>>

Handler(p) ==
    \/ Receive(p)
    \/ Authenticate(p)
    \/ ParseAndValidate(p)
    \/ CheckRateLimit(p)
    \/ CheckCostGuard(p)
    \/ ValidateImage(p)
    \/ AnalyzeGemini(p)
    \/ FallbackLowConfidence(p)
    \/ FallbackAfterFailure(p)
    \/ AnalyzeText(p)
    \/ RecordSelect(p)
    \/ RecordWrite(p)
    \/ Close(p)

\* requests are served one at a time
Next == Tick \/ \E p \in Sequential : Handler(p)

Spec == Init /\ [][Next]_vars

\* an external call of p (auth, body read, ledger read or write, probe,
\* provider) returns, fails or times out and the handler runs to its next await
Step(p) ==
    \/ Authenticate(p)
    \/ ParseAndValidate(p)
    \/ CheckRateLimit(p)
    \/ CheckCostGuard(p)
    \/ ValidateImage(p)
    \/ AnalyzeGemini(p)
    \/ FallbackLowConfidence(p)
    \/ FallbackAfterFailure(p)
    \/ AnalyzeText(p)
    \/ RecordSelect(p)
    \/ RecordWrite(p)

\* the handler of Spec when every awaited call eventually settles
FairSpec == Init /\ [][Next]_vars /\ \A p \in Sequential : WF_vars(Step(p))

-----------------------------------------------------------------------------
(* One user's day on a store that answers every query: the requests of u1   *)
(* are served one at a time from an empty table, none is malformed, and    *)
(* each one ends with a success response or is turned away by an admission *)
(* check.                                                                   *)

QuotaRequests == RATE_LIMIT_DAILY + 2

\* the request of p is u1's, the select of recordAIUsage has answered and
\* the request has not ended with an error other than 429
Nominal(p) ==
    /\ user[p] \in {None, Some(UserId("u1"))}
    /\ pc[p] = "record_write"
          => existing[p] = Single(ai_usage, Get(user[p]), usageDay[p])
    /\ Ended(p) => Status(p) \in {200, 429}

QuotaInit == InitWith({<<>>})

QuotaNext ==
    \E p \in Sequential :
        \/ ReceiveWithin(p, QuotaRequests) /\ Nominal(p)'
        \/ Authenticate(p) /\ Nominal(p)'
        \/ ParseAndValidate(p) /\ Nominal(p)'
        \/ CheckRateLimit(p) /\ Nominal(p)'
        \/ CheckCostGuard(p) /\ Nominal(p)'
        \/ ValidateImage(p) /\ Nominal(p)'
        \/ AnalyzeGemini(p) /\ Nominal(p)'
        \/ FallbackLowConfidence(p) /\ Nominal(p)'
        \/ FallbackAfterFailure(p) /\ Nominal(p)'
        \/ AnalyzeText(p) /\ Nominal(p)'
        \/ RecordSelect(p) /\ Nominal(p)'
        \/ RecordWrite(p) /\ Nominal(p)'
        \/ Close(p)

QuotaSpec == QuotaInit /\ [][QuotaNext]_vars

-----------------------------------------------------------------------------
(* Overlapping requests: two runs of the handler are suspended at their     *)
(* awaits at the same time and their steps interleave in any order.  The   *)
(* requests are u1's, on one day, with the same description, on a store    *)
(* and a provider that answer.                                              *)

TextBody ==
    [kind |-> "object", user_id |-> UserId("u1"), image_url |-> Undefined,
     description |-> Str(Rep("a", MinDescriptionLength))]

TextEstimate == Macros(250, <<125, 300, 90>>, "medium")

Plain(p) ==
    /\ Nominal(p)
    /\ body[p] \in {None, Some(TextBody)}
    /\ \A i \in DOMAIN invoked[p] : invoked[p][i].estimate = Some(TextEstimate)

\* the tables the overlapping requests start from: no row for today, a row
\* after the first call of the day, a row one call below the limit
ConcInit ==
    InitWith({<<>>, <<UsedRow("u1", 1)>>, <<UsedRow("u1", RATE_LIMIT_DAILY - 1)>>})

ConcNext ==
    \E p \in Procs :
        \/ ReceiveWithin(p, MaxConcurrentRequests) /\ Plain(p)'
        \/ Authenticate(p) /\ Plain(p)'
        \/ ParseAndValidate(p) /\ Plain(p)'
        \/ CheckRateLimit(p) /\ Plain(p)'
        \/ CheckCostGuard(p) /\ Plain(p)'
        \/ AnalyzeText(p) /\ Plain(p)'
        \/ RecordSelect(p) /\ Plain(p)'
        \/ RecordWrite(p) /\ Plain(p)'
        \/ Close(p)

ConcSpec == ConcInit /\ [][ConcNext]_vars

-----------------------------------------------------------------------------
(* Overlapping requests at the monthly ceiling: the requests of ConcSpec on *)
(* a table where u1 has one call today and three more calls of the month's  *)
(* users reach the ceiling.                                                 *)

CeilingInit ==
    InitWith({<<UsedRow("u1", 1),
                OthersRow(COST_LIMIT_MONTHLY_INR - 3 * GEMINI_COST_PER_IMAGE_INR)>>})

CeilingSpec == CeilingInit /\ [][ConcNext]_vars

-----------------------------------------------------------------------------
(* The adapters on the provider's text: the requests of u1, one with an      *)
(* image and one with a description, on a store and a probe that answer;     *)
(* every adapter call gets an answer of the provider and normalizes it.      *)

MaxAnalyses == 1

\* the numbers of the model's objects, in hundredths
Energies == {-10000, 0, 24949, 24950, 25000}
Quantities == {-1855, 0, 1850, 1854, 1855}

\* objects of the right structure
TypedObjects ==
    {Members(Num(c), Num(x), Num(3000), Num(904), JStr(k)) :
        c \in Energies, x \in Quantities, k \in {"low", "high"}}

\* objects with a member of another type, or without it
WrongValues == {JStr("450"), Null, Absent}
UntypedObjects ==
    {Members(v, Num(1855), Num(3000), Num(904), JStr("high")) : v \in WrongValues}
    \cup {Members(Num(25000), v, Num(3000), Num(904), JStr("high")) : v \in WrongValues}
    \cup {Members(Num(25000), Num(1855), v, Num(904), JStr("high")) : v \in WrongValues}
    \cup {Members(Num(25000), Num(1855), Num(3000), v, JStr("high")) : v \in WrongValues}
    \cup {Members(Num(25000), Num(1855), Num(3000), Num(904), v) :
            v \in {JStr("very high"), Null, Absent, Num(100)}}
    \cup {NoMembers}

\* the JSON text of an object
ObjectText(m) ==
    IF m = NoMembers THEN <<LBrace, RBrace>> ELSE <<LBrace, MembersTok(m), RBrace>>

\* what providers put around, or leave out of, the object m
Wrappings(m) ==
    {ObjectText(m),
     <<Ws>> \o ObjectText(m) \o <<Ws>>,
     <<Fence, Json, Ws>> \o ObjectText(m) \o <<Ws, Fence>>,
     <<Fence, Json, LetterS, Ws>> \o ObjectText(m) \o <<Ws, Fence>>,
     <<Fence, Ws>> \o ObjectText(m) \o <<Ws, Fence>>,
     <<Prose, Ws>> \o ObjectText(m),
     ObjectText(m) \o <<Ws, Prose>>,
     <<LBrace, MembersTok(m), Comma, RBrace>>,
     <<Fence, Json, Ws, LBrace, MembersTok(m), Comma, Ws, RBrace, Ws, Fence>>,
     <<LBrace, MembersTok(m)>>,
     <<LBrace, MembersTok(m), Comma>>,
     <<Fence, Json, Ws, LBrace, MembersTok(m), Comma>>}

\* JSON.stringify of a MacroEstimate: the text of the object with its numbers
Render(e) ==
    ObjectText(Members(Num(e.calories * 100), Num(e.protein * 10), Num(e.carbs * 10),
                       Num(e.fat * 10), JStr(e.confidence)))

\* estimates that are already rounded
NormalizedSamples ==
    {Macros(c, <<x, 300, 90>>, k) :
        c \in {-100, 250}, x \in {-185, 185, 186}, k \in {"low", "high"}}

\* the provider texts of the model
RawTexts ==
    {ObjectText(m) : m \in TypedObjects \cup UntypedObjects}
    \cup UNION {Wrappings(Members(Num(25000), Num(1855), Num(3000), Num(904), JStr(k))) :
                    k \in {"low", "high"}}
    \cup {Render(e) : e \in NormalizedSamples}
    \cup {<<Prose>>, <<>>}

\* an adapter's outcome when the provider answered with text
Answered(text, outcome) ==
    [error |-> outcome.error, estimate |-> outcome.estimate,
     reply |-> <<[error |-> outcome.error, text |-> text]>>]

analyzeWithGemini(text) ==
    Answered(text, IF text = <<>> THEN Throws("No text in Gemini response")
                   ELSE parseAIResponse(text))

analyzeTextWithGemini(text) ==
    Answered(text, IF text = <<>> THEN Throws("No text in Gemini response")
                   ELSE parseTextAnalysisResponse(text))

analyzeWithOpenAI(text) ==
    Answered(text, IF text = <<>> THEN Throws("No response from OpenAI")
                   ELSE parseAIResponseOpenAI(text))

\* the outcomes of the adapters on the provider texts of the model
GeminiAnswers == {analyzeWithGemini(r) : r \in RawTexts}
GeminiTextAnswers == {analyzeTextWithGemini(r) : r \in RawTexts}
OpenAIAnswers == {analyzeWithOpenAI(r) : r \in RawTexts}

ImageBody ==
    [kind |-> "object", user_id |-> UserId("u1"), image_url |-> HttpsUrl,
     description |-> Undefined]

Served(p) ==
    /\ user[p] \in {None, Some(UserId("u1"))}
    /\ body[p] \in {None, Some(ImageBody), Some(TextBody)}
    /\ probe[p] \in {None, Some("ok")}
    /\ pc[p] = "record_write"
          => existing[p] = Single(ai_usage, Get(user[p]), usageDay[p])
    /\ Ended(p) => Status(p) = 200 \/ Get(response[p]).error = "unable_to_estimate"

NormalizerInit == InitWith({<<>>})

NormalizerNext ==
    \E p \in Sequential :
        \/ ReceiveWithin(p, MaxAnalyses) /\ Served(p)'
        \/ Authenticate(p) /\ Served(p)'
        \/ ParseAndValidate(p) /\ Served(p)'
        \/ CheckRateLimit(p) /\ Served(p)'
        \/ CheckCostGuard(p) /\ Served(p)'
        \/ ValidateImage(p) /\ Served(p)'
        \/ AnalyzeGeminiOn(p, GeminiAnswers)
        \/ FallbackLowConfidenceOn(p, OpenAIAnswers)
        \/ FallbackAfterFailureOn(p, OpenAIAnswers)
        \/ AnalyzeTextOn(p, GeminiTextAnswers)
        \/ RecordSelect(p) /\ Served(p)'
        \/ RecordWrite(p) /\ Served(p)'
        \/ Close(p)

NormalizerSpec == NormalizerInit /\ [][NormalizerNext]_vars

-----------------------------------------------------------------------------
(* Vocabulary of the properties *)

\* the request of p was validated with an image URL (IMAGE mode)
ImageRequest(p) ==
    IsSome(requestData[p]) /\ Truthy(Get(requestData[p]).image_url)

\* the request of p was validated without an image URL (TEXT mode)
TextRequest(p) ==
    IsSome(requestData[p]) /\ ~Truthy(Get(requestData[p]).image_url)

\* the positions of the calls of an adapter in the request of p
CallsOf(p, adapter) == {i \in DOMAIN invoked[p] : invoked[p][i].adapter = adapter}

\* the primary adapter was called first and returned an estimate
PrimarySucceeded(p) ==
    /\ ImageRequest(p)
    /\ invoked[p] # <<>>
    /\ invoked[p][1].adapter = "gemini"
    /\ IsSome(invoked[p][1].estimate)

\* the primary adapter was called first and threw
PrimaryFailed(p) ==
    /\ ImageRequest(p)
    /\ invoked[p] # <<>>
    /\ invoked[p][1].adapter = "gemini"
    /\ invoked[p][1].estimate = None

PrimaryEstimate(p) == Get(invoked[p][1].estimate)

EndedWith(p, error, status) ==
    Ended(p) /\ Get(response[p]).error = error /\ Status(p) = status
UnableToEstimate(p) ==
    Ended(p) /\ Get(response[p]).error = "unable_to_estimate"
Succeeded(p) == Ended(p) /\ Status(p) = 200

\* the orchestrator has accepted an estimate: FINALIZE has run on `macros`
Accepted(p) ==
    IsSome(macros[p]) /\ pc[p] \in {"record_select", "record_write", "done"}

AllZero(m) == m.calories = 0 /\ m.protein = 0 /\ m.carbs = 0 /\ m.fat = 0

-----------------------------------------------------------------------------
(* C1: in IMAGE mode, when the primary adapter returns an estimate of       *)
(* confidence medium or high, the secondary adapter is never called during  *)
(* that request, configured or not.                                         *)
C1_NoFallbackOnConfidentPrimary ==
    \A p \in Procs :
        (PrimarySucceeded(p) /\ PrimaryEstimate(p).confidence # "low")
            => CallsOf(p, "openai") = {}

\* a request with OpenAI configured whose confident primary estimate was returned
C1_Witness ==
    \E p \in Procs :
        /\ hasOpenAI
        /\ PrimarySucceeded(p)
        /\ PrimaryEstimate(p).confidence = "medium"
        /\ Succeeded(p)

(* C2: in IMAGE mode, when the primary adapter returns a low-confidence      *)
(* estimate that passes the not-food test, the request never ends with      *)
(* unable_to_estimate, whatever the secondary adapter does.                 *)
C2_FallbackNeverDiscards ==
    \A p \in Procs :
        (/\ PrimarySucceeded(p)
         /\ PrimaryEstimate(p).confidence = "low"
         /\ PrimaryEstimate(p).calories # 0
         /\ PrimaryEstimate(p).protein # 0
         /\ PrimaryEstimate(p).carbs # 0
         /\ PrimaryEstimate(p).fat # 0)
            => ~UnableToEstimate(p)

(* C3: in IMAGE mode, after a low-confidence primary estimate: the          *)
(* secondary adapter is called iff it is configured; the accepted result is *)
(* the secondary's iff the secondary returned an estimate of confidence     *)
(* medium or high; otherwise it is the primary's estimate, unchanged.       *)
C3_LowConfidenceFallback ==
    \A p \in Procs :
        (PrimarySucceeded(p) /\ PrimaryEstimate(p).confidence = "low"
                             /\ pc[p] # "openai_low")
            => /\ IsSome(macros[p])
               /\ IF hasOpenAI
                  THEN Len(invoked[p]) = 2 /\ invoked[p][2].adapter = "openai"
                  ELSE Len(invoked[p]) = 1
               /\ IF /\ hasOpenAI
                     /\ IsSome(invoked[p][2].estimate)
                     /\ Get(invoked[p][2].estimate).confidence \in {"medium", "high"}
                  THEN macros[p] = invoked[p][2].estimate /\ aiModel[p] = "openai"
                  ELSE macros[p] = invoked[p][1].estimate /\ aiModel[p] = "gemini"

\* a low-confidence primary estimate was kept although the secondary answered
C3_Witness ==
    \E p \in Procs :
        /\ PrimarySucceeded(p)
        /\ PrimaryEstimate(p).confidence = "low"
        /\ Len(invoked[p]) = 2
        /\ IsSome(invoked[p][2].estimate)
        /\ Get(invoked[p][2].estimate).confidence = "low"
        /\ Succeeded(p)
        /\ Get(response[p]).ai_model_used = "gemini"

(* C4: in IMAGE mode, after a failure of the primary adapter (any error,    *)
(* a timeout included): the secondary adapter is called iff it is           *)
(* configured and its estimate is accepted whatever its confidence; when    *)
(* it fails too, or is not configured, the request ends with                *)
(* unable_to_estimate; no provider failure ends the request with the        *)
(* timeout status 504.                                                      *)
C4_FailureFallback ==
    \A p \in Procs :
        /\ (PrimaryFailed(p) /\ pc[p] # "openai_fail")
            => IF hasOpenAI
               THEN /\ Len(invoked[p]) = 2
                    /\ invoked[p][2].adapter = "openai"
                    /\ IF IsSome(invoked[p][2].estimate)
                       THEN /\ macros[p] = invoked[p][2].estimate
                            /\ aiModel[p] = "openai"
                            /\ ~EndedWith(p, "unable_to_estimate", 500)
                       ELSE EndedWith(p, "unable_to_estimate", 500)
               ELSE /\ Len(invoked[p]) = 1
                    /\ EndedWith(p, "unable_to_estimate", 500)
        /\ (invoked[p] # <<>> /\ Ended(p)) => Status(p) # 504

\* the secondary's low-confidence estimate was returned after a primary failure
C4_Witness ==
    \E p \in Procs :
        /\ PrimaryFailed(p)
        /\ Len(invoked[p]) = 2
        /\ IsSome(invoked[p][2].estimate)
        /\ Get(invoked[p][2].estimate).confidence = "low"
        /\ Succeeded(p)
        /\ Get(response[p]).ai_model_used = "openai"

(* C5: in TEXT mode the text adapter is called exactly once, the image      *)
(* adapters are never called (also after a low-confidence text estimate),   *)
(* and a failure of the text adapter ends the request with                  *)
(* unable_to_estimate.                                                      *)
C5_TextMode ==
    \A p \in Procs :
        TextRequest(p)
            => /\ CallsOf(p, "gemini") = {} /\ CallsOf(p, "openai") = {}
               /\ Cardinality(CallsOf(p, "gemini-text")) <= 1
               /\ pc[p] \notin {"gemini", "openai_low", "openai_fail"}
               /\ (Accepted(p) \/ UnableToEstimate(p))
                    => Cardinality(CallsOf(p, "gemini-text")) = 1
               /\ (invoked[p] # <<>> /\ invoked[p][1].estimate = None)
                    => EndedWith(p, "unable_to_estimate", 500)

\* a low-confidence text estimate was returned with OpenAI configured
C5_Witness ==
    \E p \in Procs :
        /\ hasOpenAI
        /\ TextRequest(p)
        /\ Len(invoked[p]) = 1
        /\ IsSome(invoked[p][1].estimate)
        /\ Get(invoked[p][1].estimate).confidence = "low"
        /\ Succeeded(p)

(* C6: in either mode and whichever provider produced it, an accepted       *)
(* estimate with calories = 0 and protein = carbs = fat = 0 ends the        *)
(* request with unable_to_estimate, never with a success response.          *)
C6_AllZeroRejected ==
    \A p \in Procs :
        /\ (Accepted(p) /\ AllZero(Get(macros[p]))) => UnableToEstimate(p)
        /\ Succeeded(p) => ~AllZero(Get(Get(response[p]).macros))

\* an all-zero estimate of the secondary adapter was accepted and rejected
C6_Witness ==
    \E p \in Procs :
        /\ Accepted(p)
        /\ AllZero(Get(macros[p]))
        /\ aiModel[p] = "openai"
        /\ EndedWith(p, "unable_to_estimate", 400)

\* recordAIUsage was called and completed / failed / was never called
RecordedOnce(p) == recorded[p] = <<"completed">>
RecordFailed(p) == recorded[p] = <<"failed">>
NeverRecorded(p) == recorded[p] = <<>>

(* C7 as stated: FINALIZE rejects an accepted estimate only when calories   *)
(* = 0 and all of protein, carbs, fat are 0; every other accepted estimate  *)
(* is not rejected.                                                         *)
C7_RejectsOnlyAllZero ==
    \A p \in Procs :
        (Accepted(p) /\ ~AllZero(Get(macros[p])))
            => ~EndedWith(p, "unable_to_estimate", 400)

(* C7 as amended: FINALIZE rejects an accepted estimate exactly when        *)
(* calories = 0 or all of protein, carbs, fat are 0; every other accepted   *)
(* estimate goes on to recordAIUsage and, once its usage is recorded, is    *)
(* returned unchanged as a success.                                         *)
C7_RejectsZeroCaloriesOrZeroMacros ==
    \A p \in Procs :
        Accepted(p) =>
            LET m == Get(macros[p])
                unusable == m.calories = 0 \/ (m.protein = 0 /\ m.carbs = 0 /\ m.fat = 0)
            IN  /\ unusable <=> EndedWith(p, "unable_to_estimate", 400)
                /\ unusable => NeverRecorded(p)
                /\ ~unusable => Len(recorded[p]) = 1
                /\ (~unusable /\ RecordedOnce(p))
                      => /\ Succeeded(p)
                         /\ Get(response[p]).macros = macros[p]

\* an accepted estimate with calories but no macros was rejected
C7_Witness ==
    \E p \in Procs :
        /\ Accepted(p)
        /\ Get(macros[p]).calories > 0
        /\ Get(macros[p]).protein = 0 /\ Get(macros[p]).carbs = 0 /\ Get(macros[p]).fat = 0
        /\ EndedWith(p, "unable_to_estimate", 400)

(* C8 as stated: recordAIUsage is called exactly once, and has completed,   *)
(* in every request that ends with a success response, and is never called *)
(* in a request that ends with an error.                                    *)
C8_RecordedIffSuccess ==
    \A p \in Procs :
        Ended(p) => IF Status(p) = 200 THEN RecordedOnce(p) ELSE NeverRecorded(p)

(* C8 as amended: recordAIUsage is called exactly once, and has completed,  *)
(* in every request that ends with a success response; in a request that    *)
(* ends with an error it was never called, or it was called once and its    *)
(* write failed, and then the request ends with the internal error 500.     *)
C8_RecordedOnceBeforeSuccess ==
    \A p \in Procs :
        /\ Len(recorded[p]) <= 1
        /\ Ended(p) =>
              IF Status(p) = 200 THEN RecordedOnce(p)
              ELSE \/ NeverRecorded(p)
                   \/ RecordFailed(p) /\ EndedWith(p, "Internal server error", 500)
        /\ RecordedOnce(p) => Succeeded(p)

\* a request whose usage write failed ended with 500
C8_Witness ==
    \E p \in Procs : RecordFailed(p) /\ EndedWith(p, "Internal server error", 500)

\* the sum of estimated_cost over the whole table
TotalCost(t) == SumCost(t, 0)

(* C9: a request that ends with an error leaves the ai_usage table          *)
(* unchanged: the only step of a request that changes the table is the one  *)
(* by which it returns its success response.                                *)
C9_ErrorsLeaveLedgerUnchanged ==
    [][ai_usage' # ai_usage
          => \E p \in Procs :
                /\ pc[p] = "record_write"
                /\ pc'[p] = "done"
                /\ Get(response'[p]).status = 200]_vars

\* a request was rejected by the rate limit after another one had recorded usage
C9_Witness ==
    \E p \in Procs :
        /\ EndedWith(p, "Daily rate limit exceeded", 429)
        /\ \E i \in DOMAIN ai_usage : ai_usage[i].calls = RATE_LIMIT_DAILY

(* C10: in every success response ai_model_used names the provider whose    *)
(* estimate is returned, and the step that records the usage of the request *)
(* adds exactly that provider's per-call cost to the table.                 *)
C10_ProviderAttribution ==
    /\ [](\A p \in Procs :
            Succeeded(p) =>
                LET r == Get(response[p])
                    last == invoked[p][Len(invoked[p])]
                IN  /\ r.ai_model_used \in {"gemini", "openai"}
                    /\ r.ai_model_used = "openai"
                          => last.adapter = "openai" /\ last.estimate = r.macros
                    /\ r.ai_model_used = "gemini"
                          => /\ invoked[p][1].adapter \in {"gemini", "gemini-text"}
                             /\ invoked[p][1].estimate = r.macros)
    /\ [][\A p \in Procs :
            (pc[p] = "record_write" /\ pc'[p] = "done" /\ Get(response'[p]).status = 200)
                => TotalCost(ai_usage') - TotalCost(ai_usage) =
                      IF Get(response'[p]).ai_model_used = "openai"
                      THEN OPENAI_COST_PER_IMAGE_INR
                      ELSE GEMINI_COST_PER_IMAGE_INR]_vars

\* both providers were called and the secondary's estimate was returned
C10_Witness ==
    \E p \in Procs :
        /\ Succeeded(p)
        /\ Len(invoked[p]) = 2
        /\ IsSome(invoked[p][1].estimate)
        /\ Get(response[p]).ai_model_used = "openai"

\* the rows of the table t that belong to user u and day d
RowsOf(t, u, d) == {i \in DOMAIN t : t[i].user_id = u /\ t[i].usage_date = d}

\* the estimated cost of all users in the calendar month of day d
RECURSIVE MonthTotal(_, _)
MonthTotal(t, d) ==
    IF t = <<>> THEN 0
    ELSE MonthTotal(Tail(t), d)
         + (IF Head(t).usage_date \div DaysPerMonth = d \div DaysPerMonth
            THEN Head(t).estimated_cost ELSE 0)

\* the per-call cost of the provider recorded for the request of p
CallCost(p) ==
    IF aiModel[p] = "openai" THEN OPENAI_COST_PER_IMAGE_INR
    ELSE GEMINI_COST_PER_IMAGE_INR

\* the request of p is between the cost guard and its response
InFlight(p) ==
    pc[p] \in {"probe", "gemini", "openai_low", "openai_fail", "text",
               "record_select", "record_write"}

\* the step by which the request of p records its usage and succeeds
RecordsUsage(p) ==
    pc[p] = "record_write" /\ pc'[p] = "done" /\ Get(response'[p]).status = 200

C12_FiveAnalysesPerDay ==
    \A p \in Procs :
        (started = DocumentedDailyLimit + 1 /\ Ended(p))
            => EndedWith(p, "Daily rate limit exceeded", 429)

(* C13: a request whose cost guard reads a monthly cost strictly below      *)
(* COST_LIMIT_MONTHLY_INR is not rejected by the cost guard, and when it   *)
(* succeeds its per-call cost is added to the month whatever total that    *)
(* gives; a request is rejected by the cost guard only when its own read   *)
(* gives a total at or above the limit.                                     *)
C13_CostBoundary ==
    [][\A p \in Procs :
        /\ (pc[p] = "cost_guard" /\ pc'[p] # "cost_guard")
              => (EndedWith(p, "Monthly cost limit reached", 429)'
                    <=> /\ MonthTotal(ai_usage, today) >= COST_LIMIT_MONTHLY_INR
                        /\ Status(p)' # 500)
        /\ RecordsUsage(p)
              => MonthTotal(ai_usage', usageDay[p])
                    = MonthTotal(ai_usage, usageDay[p]) + CallCost(p)]_vars

\* a request was rejected after an admitted request had taken the month over
\* the limit
C13_Witness ==
    \E p \in Procs :
        /\ EndedWith(p, "Monthly cost limit reached", 429)
        /\ MonthTotal(ai_usage, today)
              = COST_LIMIT_MONTHLY_INR - 4 + OPENAI_COST_PER_IMAGE_INR
        /\ \E i \in DOMAIN ai_usage :
              /\ ai_usage[i].user_id \in {UserId(u) : u \in Users}
              /\ ai_usage[i].estimated_cost = OPENAI_COST_PER_IMAGE_INR

(* C14: the cost guard is global: while the estimated cost of all users in  *)
(* the current calendar month is at or above COST_LIMIT_MONTHLY_INR, no    *)
(* request of any user is past the cost guard (so no adapter is called),   *)
(* and a request that reaches the cost guard, also one of a user without   *)
(* any usage, ends there with 429; rows of earlier months do not count.    *)
C14_GlobalCostGuard ==
    /\ [](\A p \in Procs :
            MonthTotal(ai_usage, today) >= COST_LIMIT_MONTHLY_INR => ~InFlight(p))
    /\ [][\A p \in Procs :
            (pc[p] = "cost_guard" /\ pc'[p] # "cost_guard")
                => IF MonthTotal(ai_usage, today) >= COST_LIMIT_MONTHLY_INR
                   THEN /\ Ended(p)'
                        /\ invoked'[p] = <<>>
                        /\ Status(p)' \in {429, 500}
                        /\ Status(p)' = 429
                              => EndedWith(p, "Monthly cost limit reached", 429)'
                   ELSE Ended(p)' => Status(p)' \in {400, 500}]_vars

\* a user without any usage was rejected by the cost guard
C14_Witness ==
    \E p \in Procs :
        /\ EndedWith(p, "Monthly cost limit reached", 429)
        /\ \A i \in DOMAIN ai_usage : ai_usage[i].user_id # Get(user[p])
        /\ \E i \in DOMAIN ai_usage : ai_usage[i].user_id \in {UserId(u) : u \in Users}

(* C15: a request that passes validateRequest with a user_id other than the *)
(* authenticated user's ends with 403 at once: it never reaches the rate   *)
(* limit check, the cost guard, the image probe, an adapter or             *)
(* recordAIUsage, and its user_id is never replaced by the authenticated   *)
(* one.                                                                     *)
C15_IdentityMismatch ==
    \A p \in Procs :
        /\ (IsSome(requestData[p]) /\ IsSome(body[p]))
              => Get(requestData[p]).user_id = Get(body[p]).user_id
        /\ (IsSome(requestData[p]) /\ Get(requestData[p]).user_id # Get(user[p]))
              => /\ EndedWith(p, "user_id does not match authenticated user", 403)
                 /\ invoked[p] = <<>>
                 /\ NeverRecorded(p)
        /\ (pc[p] \in {"rate_limit", "cost_guard"} \/ InFlight(p))
              => /\ IsSome(body[p])
                 /\ Get(body[p]).user_id = Get(user[p])

\* a valid request of u1 carrying the user_id of u2 was rejected
C15_Witness ==
    \E p \in Procs :
        /\ EndedWith(p, "user_id does not match authenticated user", 403)
        /\ user[p] = Some(UserId("u1"))
        /\ Get(body[p]).user_id = UserId("u2")
        /\ Truthy(Get(body[p]).image_url)

(* C16: the rate limit check decides on the stored counter alone and       *)
(* reserves nothing: a request is rejected by it only when a stored row    *)
(* of (user, today) has calls >= RATE_LIMIT_DAILY, is admitted whenever no *)
(* such row has, and the check leaves the table unchanged, whatever other  *)
(* requests of the same user are between their check and their record.     *)
(* So two overlapping requests that find calls = RATE_LIMIT_DAILY - 1 both *)
(* pass and both succeed (C16_Witness).                                     *)
C16_CheckThenAct ==
    [][\A p \in Procs :
        (pc[p] = "rate_limit" /\ pc'[p] # "rate_limit")
            => /\ ai_usage' = ai_usage
               /\ EndedWith(p, "Daily rate limit exceeded", 429)'
                     => \E i \in RowsOf(ai_usage, Get(user[p]), today) :
                            ai_usage[i].calls >= RATE_LIMIT_DAILY
               /\ (\A i \in RowsOf(ai_usage, Get(user[p]), today) :
                        ai_usage[i].calls < RATE_LIMIT_DAILY)
                     => pc'[p] = "cost_guard"]_vars

\* two requests of one user have both succeeded after both read the row with
\* calls = RATE_LIMIT_DAILY - 1: RATE_LIMIT_DAILY + 1 successes on that day
C16_Witness ==
    \E p, q \in Procs :
        /\ p # q
        /\ Succeeded(p) /\ Succeeded(q)
        /\ user[p] = user[q]
        /\ usageDay[p] = usageDay[q]
        /\ IsSome(existing[p]) /\ Get(existing[p]).calls = RATE_LIMIT_DAILY - 1
        /\ existing[q] = existing[p]

(* C17: the calls of a row of the table never decrease: every step leaves   *)
(* each existing row with calls >= its calls before, also when the         *)
(* recordAIUsage steps of overlapping requests of one user interleave.     *)
C17_CallsNeverDecrease ==
    [][\A i \in DOMAIN ai_usage :
        /\ i \in DOMAIN ai_usage'
        /\ ai_usage'[i].user_id = ai_usage[i].user_id
        /\ ai_usage'[i].usage_date = ai_usage[i].usage_date
        /\ ai_usage'[i].calls >= ai_usage[i].calls]_vars

(* C18: in every reachable state the table holds at most one row per        *)
(* (user, day), also after two requests of one user both found no row for  *)
(* today before either inserted.                                            *)
C18_OneRowPerUserDay ==
    \A i, j \in DOMAIN ai_usage :
        (/\ ai_usage[i].user_id = ai_usage[j].user_id
         /\ ai_usage[i].usage_date = ai_usage[j].usage_date) => i = j

C20_NewDayNewRecord ==
    [][\A p \in Procs :
        /\ (pc[p] = "rate_limit" /\ RowsOf(ai_usage, Get(user[p]), today) = {})
              => ~EndedWith(p, "Daily rate limit exceeded", 429)'
        /\ RecordsUsage(p)
              => LET u == Get(user[p])
                     d == usageDay[p]
                 IN  /\ Len(ai_usage') >= Len(ai_usage)
                     /\ \A i \in DOMAIN ai_usage :
                           i \notin RowsOf(ai_usage, u, d) => ai_usage'[i] = ai_usage[i]
                     /\ RowsOf(ai_usage, u, d) = {}
                           => /\ Cardinality(RowsOf(ai_usage', u, d)) = 1
                              /\ \A i \in RowsOf(ai_usage', u, d) :
                                    ai_usage'[i].calls = 1]_vars

\* a user at the limit on one day has recorded a first call on the next day
C20_Witness ==
    \E p \in Procs :
        /\ Succeeded(p)
        /\ usageDay[p] = FirstDay + 1
        /\ \E i \in RowsOf(ai_usage, Get(user[p]), FirstDay) :
              ai_usage[i].calls = RATE_LIMIT_DAILY
        /\ \E i \in RowsOf(ai_usage, Get(user[p]), FirstDay + 1) :
              ai_usage[i].calls = 1

-----------------------------------------------------------------------------
\* the handler of p is suspended at the await of an adapter call
AwaitsPrimary(p) == pc[p] \in {"gemini", "text"}
AwaitsSecondary(p) == pc[p] \in {"openai_low", "openai_fail"}

\* C21: within one request each adapter is called at most once and at most two
\* calls are made; the secondary is called only after the primary's call has
\* ended, and while a call is outstanding every earlier call of the request
\* has ended: the calls are logged in `invoked` when they end, and a call
\* ends only while the handler awaits it.
C21_SequentialProviderCalls ==
    /\ [](\A p \in Procs :
            /\ Len(invoked[p]) <= 2
            /\ \A i, j \in DOMAIN invoked[p] :
                  invoked[p][i].adapter = invoked[p][j].adapter => i = j
            /\ \A i \in CallsOf(p, "openai") :
                  i = 2 /\ invoked[p][1].adapter = "gemini"
            /\ AwaitsPrimary(p) => invoked[p] = <<>>
            /\ AwaitsSecondary(p)
                  => Len(invoked[p]) = 1 /\ invoked[p][1].adapter = "gemini")
    /\ [][\A p \in Procs :
            invoked'[p] # invoked[p] /\ pc[p] # "done"
                => /\ AwaitsPrimary(p) \/ AwaitsSecondary(p)
                   /\ Len(invoked'[p]) = Len(invoked[p]) + 1
                   /\ SubSeq(invoked'[p], 1, Len(invoked[p])) = invoked[p]
                   /\ pc'[p] # pc[p]]_vars

\* both adapters were called, the secondary after the primary had failed
C21_Witness ==
    \E p \in Procs :
        /\ Ended(p)
        /\ Len(invoked[p]) = 2
        /\ invoked[p][1] = Call("gemini", None)
        /\ invoked[p][2].adapter = "openai"

-----------------------------------------------------------------------------
\* the object written in a provider text
ObjectIn(text) == text[CHOOSE i \in DOMAIN text : text[i].k = "members"].v

\* the adapter calls of p that returned an estimate
Returned(p) == {i \in DOMAIN invoked[p] : IsSome(invoked[p][i].estimate)}

\* the estimate returned by call i of p and the object it was made from
EstimateOf(p, i) == Get(invoked[p][i].estimate)
SourceOf(p, i) == ObjectIn(replies[p][i].text)

\* r units is the multiple of unit nearest to h hundredths, a half going up
NearestHalfUp(r, h, unit) ==
    /\ 2 * h >= 2 * r * unit - unit
    /\ 2 * h < 2 * r * unit + unit

\* C22: every estimate an adapter returns (image, text or secondary) has the
\* provider's calories rounded to the nearest integer and its protein, carbs
\* and fat rounded to the nearest tenth, a half going up: 18.54 gives 18.5 and
\* 18.55 gives 18.6.
C22_Rounding ==
    \A p \in Procs : \A i \in Returned(p) :
        /\ NearestHalfUp(EstimateOf(p, i).calories, SourceOf(p, i).calories.n, 100)
        /\ NearestHalfUp(EstimateOf(p, i).protein, SourceOf(p, i).protein.n, 10)
        /\ NearestHalfUp(EstimateOf(p, i).carbs, SourceOf(p, i).carbs.n, 10)
        /\ NearestHalfUp(EstimateOf(p, i).fat, SourceOf(p, i).fat.n, 10)
        /\ SourceOf(p, i).protein.n = 1854 => EstimateOf(p, i).protein = 185
        /\ SourceOf(p, i).protein.n = 1855 => EstimateOf(p, i).protein = 186

\* the image adapter rounded 18.54 to 18.5, then the secondary adapter rounded
\* 18.55 to 18.6 and 249.5 to 250
C22_Witness ==
    \E p \in Procs :
        /\ Returned(p) = {1, 2}
        /\ invoked[p][2].adapter = "openai"
        /\ SourceOf(p, 1).protein.n = 1854 /\ EstimateOf(p, 1).protein = 185
        /\ SourceOf(p, 2).protein.n = 1855 /\ EstimateOf(p, 2).protein = 186
        /\ SourceOf(p, 2).calories.n = 24950 /\ EstimateOf(p, 2).calories = 250

-----------------------------------------------------------------------------
\* C23: normalization is idempotent: when the provider's text is the JSON
\* rendering of an estimate that is already rounded, the adapter returns that
\* very estimate.
C23_Idempotent ==
    \A p \in Procs : \A i \in DOMAIN replies[p] : \A e \in NormalizedSamples :
        replies[p][i].text = Render(e) => invoked[p][i].estimate = Some(e)

\* the text adapter was given the rendering of an estimate with 18.5 g of
\* protein and returned it
C23_Witness ==
    \E p \in Procs : \E e \in NormalizedSamples :
        /\ e.protein = 185
        /\ Len(replies[p]) = 1
        /\ replies[p][1].text = Render(e)
        /\ invoked[p][1] = Call("gemini-text", Some(e))

-----------------------------------------------------------------------------
\* the errors of the normalizers
Truncated == "AI response appears truncated"
ParseFailures == {"Failed to parse AI response as JSON", Truncated, "SyntaxError"}

\* the text call i of p parsed, its error ("" when it returned), and the
\* candidate its adapter handed to the JSON parser
TextOf(p, i) == replies[p][i].text
ErrorOf(p, i) == replies[p][i].error
CandidateOf(p, i) ==
    CASE invoked[p][i].adapter = "gemini" -> CleanedImage(TextOf(p, i))
      [] invoked[p][i].adapter = "gemini-text" -> CleanedText(TextOf(p, i))
      [] OTHER -> TrimText(TextOf(p, i))

\* the candidate ends with a comma or does not end with a closing brace
CutOff(s) == EndsWith(s, Comma) \/ ~EndsWith(s, RBrace)

\* a fenced object with a comma before its closing brace
FencedTrailingComma(text) ==
    \E m \in TypedObjects :
        text = <<Fence, Json, Ws, LBrace, MembersTok(m), Comma, Ws, RBrace, Ws, Fence>>

\* C24 as stated: in every adapter a fenced object with a trailing comma
\* before the closing brace fails flagged as possibly truncated, and so does
\* every parse failure whose candidate ends with a comma or does not end with
\* a closing brace.
C24_TruncationFlaggedEverywhere ==
    \A p \in Procs : \A i \in DOMAIN replies[p] :
        /\ FencedTrailingComma(TextOf(p, i)) => ErrorOf(p, i) = Truncated
        /\ ErrorOf(p, i) \in ParseFailures /\ CutOff(CandidateOf(p, i))
              => ErrorOf(p, i) = Truncated

\* C24, amended: only the text adapter flags a parse failure as possibly
\* truncated, and it does so exactly when its candidate ends with a comma or
\* does not end with a closing brace; a fenced object with a trailing comma
\* before the closing brace fails in every adapter, as a plain parse failure.
C24_TruncationFlaggedByTextAdapter ==
    \A p \in Procs : \A i \in DOMAIN replies[p] :
        /\ ErrorOf(p, i) = Truncated => invoked[p][i].adapter = "gemini-text"
        /\ invoked[p][i].adapter = "gemini-text" /\ ErrorOf(p, i) \in ParseFailures
              => (ErrorOf(p, i) = Truncated <=> CutOff(CandidateOf(p, i)))
        /\ FencedTrailingComma(TextOf(p, i))
              => /\ invoked[p][i].estimate = None
                 /\ ErrorOf(p, i) \in ParseFailures \ {Truncated}

\* the text adapter failed on a fenced object with a trailing comma
C24_Witness ==
    \E p \in Procs :
        /\ Len(replies[p]) = 1
        /\ invoked[p][1] = Call("gemini-text", None)
        /\ FencedTrailingComma(TextOf(p, 1))
        /\ ErrorOf(p, 1) = "Failed to parse AI response as JSON"

-----------------------------------------------------------------------------
\* C25: every estimate in a success response has calories, protein, carbs and
\* fat that are not negative, whatever JSON the provider answered with.
C25_NonNegativeEstimates ==
    \A p \in Procs :
        Succeeded(p) =>
            LET m == Get(Get(response[p]).macros)
            IN  m.calories >= 0 /\ m.protein >= 0 /\ m.carbs >= 0 /\ m.fat >= 0

-----------------------------------------------------------------------------
\* the text holds the members of an object
HasObject(text) == \E i \in DOMAIN text : text[i].k = "members"

\* the four quantities of the object are numbers and its confidence is one of
\* the three levels
WellTyped(m) ==
    /\ \A v \in {m.calories, m.protein, m.carbs, m.fat} : v.t = "number"
    /\ m.confidence.t = "string"
    /\ m.confidence.s \in {"low", "medium", "high"}

\* C26: an adapter returns an estimate only from an object whose calories,
\* protein, carbs and fat are numbers and whose confidence is low, medium or
\* high, and it fails on every other object; every success response carries
\* one of the three confidence levels.
C26_StructureValidated ==
    \A p \in Procs :
        /\ \A i \in DOMAIN replies[p] :
              /\ IsSome(invoked[p][i].estimate)
                    => /\ HasObject(TextOf(p, i))
                       /\ WellTyped(SourceOf(p, i))
                       /\ EstimateOf(p, i).confidence = SourceOf(p, i).confidence.s
              /\ HasObject(TextOf(p, i)) /\ ~WellTyped(SourceOf(p, i))
                    => invoked[p][i].estimate = None
        /\ Succeeded(p) =>
              Get(Get(response[p]).macros).confidence \in {"low", "medium", "high"}

\* the secondary adapter failed on an object whose calories are a string,
\* after the image adapter had failed on one without confidence
C26_Witness ==
    \E p \in Procs :
        /\ Len(replies[p]) = 2
        /\ HasObject(TextOf(p, 1)) /\ HasObject(TextOf(p, 2))
        /\ SourceOf(p, 1).confidence = Absent
        /\ SourceOf(p, 2).calories = JStr("450")
        /\ ErrorOf(p, 1) = "Invalid response structure from AI"
        /\ ErrorOf(p, 2) = "Invalid response structure from AI"
        /\ UnableToEstimate(p)

-----------------------------------------------------------------------------
\* a well-typed object inside a leading and a trailing code fence, or after
\* prose
FencedOrAfterProse(text) ==
    \E m \in TypedObjects :
        text \in {<<Fence, Json, Ws>> \o ObjectText(m) \o <<Ws, Fence>>,
                  <<Fence, Ws>> \o ObjectText(m) \o <<Ws, Fence>>,
                  <<Prose, Ws>> \o ObjectText(m)}

\* C27: the normalizers of the adapters agree: two calls of a request that
\* were answered with the same text both return the same estimate or both
\* fail, and a well-typed object inside code fences or after prose is
\* accepted by whichever adapter receives it.
C27_NormalizersAgree ==
    \A p \in Procs :
        /\ \A i, j \in DOMAIN replies[p] :
              TextOf(p, i) = TextOf(p, j)
                  => invoked[p][i].estimate = invoked[p][j].estimate
        /\ \A i \in DOMAIN replies[p] :
              FencedOrAfterProse(TextOf(p, i)) => IsSome(invoked[p][i].estimate)

-----------------------------------------------------------------------------
\* the fields of a body as the validation rules speak of them: a field is
\* present when it is a non-empty value
Present(v) == v.type # "undefined" /\ v # Str(<<>>)
IsUuid(v) == v.type = "string" /\ \E u \in Users : v.str = <<u>>
IsHttpUrl(v) == v \in {HttpUrl, HttpsUrl}
SoleDescription(b) == ~Present(b.image_url) /\ Present(b.description)

\* C28 as stated: a body passes structural validation exactly when its
\* user_id is a UUID, its image_url, if present, is an http/https URL, one of
\* image_url and description is present and a description that is the sole
\* input has at least 10 characters, leading and trailing whitespace counted.
C28_ValidationCountsWhitespace ==
    \A p \in Procs :
        IsSome(body[p]) =>
            LET b == Get(body[p])
            IN  IsSome(requestData[p]) <=>
                    /\ b.kind = "object"
                    /\ IsUuid(b.user_id)
                    /\ Present(b.image_url) => IsHttpUrl(b.image_url)
                    /\ Present(b.image_url) \/ Present(b.description)
                    /\ SoleDescription(b) => Len(b.description.str) >= 10

\* C28, amended: a body passes structural validation exactly when it is an
\* object, its user_id is a UUID, its image_url, if given, is a string that
\* is empty or an http/https URL, its description, if given, is a string, one
\* of the two is present, and a description that is the sole input has at
\* least 10 characters after its leading and trailing whitespace is removed.
C28_ValidationTrims ==
    \A p \in Procs :
        IsSome(body[p]) =>
            LET b == Get(body[p])
            IN  IsSome(requestData[p]) <=>
                    /\ b.kind = "object"
                    /\ IsUuid(b.user_id)
                    /\ b.image_url.type \in {"undefined", "string"}
                    /\ b.description.type \in {"undefined", "string"}
                    /\ Present(b.image_url) => IsHttpUrl(b.image_url)
                    /\ Present(b.image_url) \/ Present(b.description)
                    /\ SoleDescription(b) => Len(Trim(b.description.str)) >= 10

\* a description of 10 characters, one of them a leading blank, was the sole
\* input and the request was rejected
C28_Witness ==
    \E p \in Procs :
        /\ IsSome(body[p])
        /\ IsUuid(Get(body[p]).user_id)
        /\ SoleDescription(Get(body[p]))
        /\ Len(Get(body[p]).description.str) = 10
        /\ Len(Trim(Get(body[p]).description.str)) = 9
        /\ requestData[p] = None
        /\ EndedWith(p, "validation_error", 400)

-----------------------------------------------------------------------------
\* the probe of the image of p came to nothing: a status that is not 2xx, a
\* content-type that is not an image, a failed fetch or a timeout
ProbeFailed(p) ==
    IsSome(probe[p])
        /\ Get(probe[p]) \in {"bad_status", "not_image", "fetch_failed", "timeout"}

\* C29: when the probe of the image fails in any of these ways the request is
\* rejected at once with a validation failure: no adapter is called, no usage
\* is recorded and the ledger is as it was.
C29_ProbeFailureRejects ==
    /\ [](\A p \in Procs :
            ProbeFailed(p)
                => /\ EndedWith(p, "validation_error", 400)
                   /\ invoked[p] = <<>>
                   /\ NeverRecorded(p))
    /\ [][\A p \in Procs : ProbeFailed(p)' /\ ~ProbeFailed(p) => ai_usage' = ai_usage]_vars

\* the probe timed out and the request was rejected
C29_Witness ==
    \E p \in Procs :
        /\ probe[p] = Some("timeout")
        /\ ImageRequest(p)
        /\ EndedWith(p, "validation_error", 400)

-----------------------------------------------------------------------------
\* the awaits of the admission sequence, in the order of the handler, and
\* what each check answers when it fails
AdmissionOrder ==
    {<<"idle", "auth">>, <<"auth", "validate">>, <<"validate", "rate_limit">>,
     <<"rate_limit", "cost_guard">>, <<"cost_guard", "probe">>,
     <<"cost_guard", "text">>, <<"probe", "gemini">>}

Rejections ==
    {<<"idle", "Missing authorization header", 401>>,
     <<"auth", "Unauthorized", 401>>,
     <<"validate", "validation_error", 400>>,
     <<"validate", "user_id does not match authenticated user", 403>>,
     <<"rate_limit", "Daily rate limit exceeded", 429>>,
     <<"cost_guard", "Monthly cost limit reached", 429>>,
     <<"probe", "validation_error", 400>>}

AdmissionStages == {"idle", "auth", "validate", "rate_limit", "cost_guard", "probe"}

\* the request of p was answered by the check of stage s
RejectedAt(p, s) ==
    /\ Ended(p)
    /\ <<s, Get(response[p]).error, Status(p)>> \in Rejections
    /\ s = "validate" /\ Status(p) = 400 => probe[p] = None
    /\ s = "probe" => IsSome(probe[p])

\* C30: the admission checks run in the order credential, validation,
\* identity, quota, cost, probe; a check is reached only when those before it
\* have passed, and a check that fails answers at once with its own code
\* (401, 400, 403, 429, 429, 400): a request without credential is rejected
\* with its body unread, and a request over quota is rejected with the rate
\* limit error and its image never probed.
C30_AdmissionOrder ==
    /\ [](\A p \in Procs :
            /\ RejectedAt(p, "idle") \/ RejectedAt(p, "auth")
                  => user[p] = None /\ body[p] = None /\ requestData[p] = None
            /\ RejectedAt(p, "validate")
                  => /\ IsSome(user[p]) /\ IsSome(body[p])
                     /\ Status(p) = 400 <=> requestData[p] = None
                     /\ Status(p) = 403 <=>
                           (IsSome(requestData[p])
                               /\ Get(requestData[p]).user_id # Get(user[p]))
            /\ RejectedAt(p, "rate_limit") \/ RejectedAt(p, "cost_guard")
                  => /\ IsSome(requestData[p])
                     /\ Get(requestData[p]).user_id = Get(user[p])
                     /\ probe[p] = None
            /\ (\E s \in AdmissionStages : RejectedAt(p, s))
                  => invoked[p] = <<>> /\ NeverRecorded(p))
    /\ [][\A p \in Procs :
            pc[p] \in AdmissionStages /\ pc'[p] # pc[p]
                => /\ pc'[p] = "done" \/ <<pc[p], pc'[p]>> \in AdmissionOrder
                   /\ pc'[p] = "done" /\ Status(p)' # 500
                        => \E s \in AdmissionStages : s = pc[p] /\ RejectedAt(p, s)'
                   /\ ai_usage' = ai_usage
                   /\ (pc[p] = "rate_limit"
                         /\ \E i \in RowsOf(ai_usage, Get(user[p]), today) :
                               ai_usage[i].calls >= RATE_LIMIT_DAILY)
                        => pc'[p] = "done" /\ probe'[p] = None
                   /\ (pc[p] = "cost_guard" /\ pc'[p] # "done")
                        => MonthTotal(ai_usage, today) < COST_LIMIT_MONTHLY_INR]_vars

\* a request with an image was over quota: it was answered with the rate
\* limit error and its image was never probed
C30_Witness ==
    \E p \in Procs :
        /\ RejectedAt(p, "rate_limit")
        /\ ImageRequest(p)
        /\ probe[p] = None

-----------------------------------------------------------------------------
\* the validated request of p carries a non-empty description
WithDescription(p) ==
    IsSome(requestData[p]) /\ Get(requestData[p]).description.type = "string"
        /\ Get(requestData[p]).description.str # <<>>

\* C31: the mode depends on the image URL alone: a validated request with a
\* non-empty image_url awaits and calls only the image adapters, with or
\* without a description, and a validated request without one awaits and
\* calls only the text adapter; the first call after admission is the image
\* adapter's in the first case and the text adapter's in the second.
C31_ModeSelection ==
    \A p \in Procs :
        /\ ImageRequest(p)
              => /\ pc[p] # "text"
                 /\ CallsOf(p, "gemini-text") = {}
                 /\ invoked[p] # <<>> => invoked[p][1].adapter = "gemini"
                 /\ Accepted(p) \/ UnableToEstimate(p) => invoked[p] # <<>>
        /\ TextRequest(p)
              => /\ pc[p] \notin {"probe", "gemini", "openai_low", "openai_fail"}
                 /\ probe[p] = None
                 /\ invoked[p] # <<>> => invoked[p][1].adapter = "gemini-text"
                 /\ \A i \in DOMAIN invoked[p] : invoked[p][i].adapter = "gemini-text"

\* a request with both an image URL and a description was served by the
\* image adapter
C31_Witness ==
    \E p \in Procs :
        /\ ImageRequest(p)
        /\ WithDescription(p)
        /\ invoked[p] # <<>>
        /\ invoked[p][1].adapter = "gemini"
        /\ Succeeded(p)

-----------------------------------------------------------------------------
\* the two terminal states of a request
Success(r) == r.status = 200 /\ IsSome(r.macros) /\ r.error = ""
Failure(r) == r.status \in 400..599 /\ r.macros = None /\ r.error # ""

\* a request in progress has no response; an ended one has exactly one, a
\* success or an error object and never both
OneTerminalState ==
    \A p \in Procs :
        /\ pc[p] \notin {"done"} => response[p] = None
        /\ Ended(p) => /\ IsSome(response[p])
                       /\ Success(Get(response[p])) # Failure(Get(response[p]))

\* the response is written by the step that ends the request and by no other
RespondsOnce ==
    \A p \in Procs :
        (response'[p] # response[p] /\ pc[p] # "done")
            => (pc'[p] = "done" /\ response[p] = None)

\* C32: when every external call eventually returns, fails or times out,
\* every request that was received ends, and it ends in exactly one terminal
\* state: one success response, or one error object with a non-empty error
\* field; a failure of an external call is answered with an error object.
C32_Terminates ==
    /\ []OneTerminalState
    /\ [][RespondsOnce]_vars
    /\ \A p \in Sequential : (pc[p] # "idle") ~> Ended(p)

\* a request whose estimate was accepted ended with the error object of the
\* failed usage write, and with that alone
C32_Witness ==
    \E p \in Procs :
        /\ EndedWith(p, "Internal server error", 500)
        /\ IsSome(macros[p])
        /\ Get(response[p]).macros = None

-----------------------------------------------------------------------------
\* what the cost guard reads, and whether it turns a request away on it
MonthlyCost == SumCost(ai_usage, firstDayOfMonth(today))
AtCeiling == MonthlyCost >= COST_LIMIT_MONTHLY_INR

\* C33: once the monthly cost read by admission has reached the ceiling (an
\* admission check rejects with CostLimitExceeded) it stays at or above the
\* ceiling for the rest of the calendar month, so every later admission check
\* of the month rejects too, also when requests admitted earlier record their
\* usage afterwards.
C33_CeilingHolds ==
    [][(AtCeiling /\ firstDayOfMonth(today') = firstDayOfMonth(today))
          => AtCeiling']_vars

-----------------------------------------------------------------------------
\* the calls counter stored for (u, d): the calls of the record the store
\* returns for that key, 0 when it returns none
StoredCalls(t, u, d) ==
    IF Cardinality(RowsOf(t, u, d)) = 1
    THEN t[CHOOSE i \in RowsOf(t, u, d) : TRUE].calls
    ELSE 0

\* the requests of u that complete the recording of their usage of day d in
\* this step
Recording(u, d) ==
    {p \in Procs : RecordsUsage(p) /\ user[p] = Some(u) /\ usageDay[p] = d}

LedgerDays == 0..(FirstDay + MaxTicks)

\* C34: with the requests served one at a time, the calls counter stored for
\* a (user, day) counts the requests of that user that passed FINALIZE and
\* recorded their usage on that day: a step that completes a recording adds
\* exactly one to it and no other step changes it, so that the counter never
\* exceeds and always equals the number of recordings.
C34_CallsCountRecordings ==
    [][\A u \in Users, d \in LedgerDays :
          StoredCalls(ai_usage', UserId(u), d)
              = StoredCalls(ai_usage, UserId(u), d)
                  + Cardinality(Recording(UserId(u), d))]_vars

-----------------------------------------------------------------------------
\* the daily-count read of p answers one record, or 'no record for today'
DailyReadAnswers(p) == Cardinality(RowsOf(ai_usage, Get(user[p]), today)) <= 1

\* the request of p has ended with an error response before any probe,
\* provider call or usage write
TurnedAway(p) ==
    /\ Ended(p)
    /\ Status(p) >= 400
    /\ Get(response[p]).error # ""
    /\ probe[p] = None
    /\ invoked[p] = <<>>
    /\ recorded[p] = <<>>

\* C35: admission fails closed on ledger errors.  A request leaves the rate
\* limit check for the cost guard only when its daily-count read answered a
\* record below the limit or 'no record for today' (count 0), and leaves the
\* cost guard for the probe or an adapter only when the monthly-cost read
\* answered a sum below the ceiling; every other outcome of the two reads
\* ends the request with an error response, with no probe, no provider call
\* and no usage write.
C35_FailsClosed ==
    [][\A p \in Procs :
          /\ (pc[p] = "rate_limit" /\ pc'[p] # "rate_limit")
                => \/ /\ pc'[p] = "cost_guard"
                      /\ DailyReadAnswers(p)
                      /\ StoredCalls(ai_usage, Get(user[p]), today) < RATE_LIMIT_DAILY
                   \/ TurnedAway(p)' /\ ai_usage' = ai_usage
          /\ (pc[p] = "cost_guard" /\ pc'[p] # "cost_guard")
                => \/ /\ pc'[p] \in {"probe", "gemini", "text"}
                      /\ ~AtCeiling
                   \/ TurnedAway(p)' /\ ai_usage' = ai_usage]_vars

-----------------------------------------------------------------------------
\* v is a non-empty string
NonEmptyString(v) == v.type = "string" /\ v.str # <<>>

\* C36: the 'invalid_request' branch of mode selection is never taken: the
\* data of every body validateRequest accepts has a non-empty string as
\* image_url or as description, no request ends with the error
\* 'invalid_request', and a request that is past the cost guard is in IMAGE
\* mode when its image_url is a non-empty string and in TEXT mode otherwise.
C36_InvalidRequestUnreachable ==
    \A p \in Procs :
        /\ IsSome(requestData[p])
              => \/ NonEmptyString(Get(requestData[p]).image_url)
                 \/ NonEmptyString(Get(requestData[p]).description)
        /\ Ended(p) => Get(response[p]).error # "invalid_request"
        /\ pc[p] \in {"probe", "gemini", "openai_low", "openai_fail"}
              => NonEmptyString(Get(requestData[p]).image_url)
        /\ pc[p] = "text"
              => /\ ~NonEmptyString(Get(requestData[p]).image_url)
                 /\ NonEmptyString(Get(requestData[p]).description)

\* a request whose image_url is the empty string and whose description is
\* given was accepted and is in TEXT mode
C36_Witness ==
    \E p \in Procs :
        /\ pc[p] = "text"
        /\ Get(requestData[p]).image_url = Str(<<>>)
        /\ NonEmptyString(Get(requestData[p]).description)

====
